---- MODULE Spec2Model ----
(***************************************************************************)
(* RelayPublishQueue: the coordinator of optimistic updaters and server    *)
(* payloads over a Store, with the record source, the store and the        *)
(* record source mutator it drives.                                        *)
(*                                                                         *)
(* The queue (RelayPublishQueue.js) is translated from its source.  The    *)
(* in-memory record source, the store and the mutator are collaborators    *)
(* whose code is described by the design document only; they are modelled  *)
(* from its sections 3, 4.1, 4.2 and 4.3 at the granularity of whole       *)
(* records: a sink entry for an id shadows the base's entry, a write       *)
(* copies the current record into the sink first, and publish() merges a   *)
(* source into the store entry by entry.                                   *)
(***************************************************************************)
EXTENDS Integers, Sequences, FiniteSets, TLC

(***************************************************************************)
(* Bounds of the model.                                                    *)
(***************************************************************************)
\* Most payloads that may be pending between two run() calls.
MaxPayloads == 2
\* Largest value the numeric field may hold (never reached by the queue).
MaxCount == 3

(***************************************************************************)
(* Records and record sources (design document 3, 4.1).                    *)
(***************************************************************************)
DataIDs == {"4", "5"}

\* The value of a field that a record does not have.
AbsentName  == "absent"
AbsentCount == -1

EXISTENT    == "EXISTENT"
NONEXISTENT == "NONEXISTENT"
UNKNOWN     == "UNKNOWN"
\* A sparse source (payload source, sink, backup) holds no entry for the id.
NOENTRY     == "NOENTRY"

\* Record = {[key: string]: mixed}; the keys of the model are name and count.
RecordCreate == [st |-> EXISTENT, name |-> AbsentName, count |-> AbsentCount]
Tombstone    == [st |-> NONEXISTENT, name |-> AbsentName, count |-> AbsentCount]
UnknownEntry == [st |-> UNKNOWN, name |-> AbsentName, count |-> AbsentCount]
NoEntry      == [st |-> NOENTRY, name |-> AbsentName, count |-> AbsentCount]

\* new RelayInMemoryRecordSource(): no id has an entry.
EmptySource == [id \in DataIDs |-> NoEntry]

\* RecordSource.getStatus(id): an id without entry was never observed.
GetStatus(source, id) ==
    IF source[id].st = NOENTRY THEN UNKNOWN ELSE source[id].st

\* RecordSource.has(id): the source holds an entry (a tombstone included).
Has(source, id) == source[id].st # NOENTRY

\* RecordSource.size(): the number of entries.
Size(source) == Cardinality({id \in DataIDs : Has(source, id)})

\* MutableRecordSource.set / delete / remove.
SourceSet(source, id, record) == [source EXCEPT ![id] = record]
SourceDelete(source, id)      == [source EXCEPT ![id] = Tombstone]
SourceRemove(source, id)      == [source EXCEPT ![id] = NoEntry]

(***************************************************************************)
(* Store (design document 4.2; interface in RelayStoreTypes.js).           *)
(* A store value is [source, updated, data]: the canonical source, the     *)
(* ids changed since the last notify(), and the data of the one            *)
(* subscription's snapshot, whose selector reads record "4".               *)
(***************************************************************************)
SeenRecords == {"4"}

\* Store.lookup(selector).data for the subscription's selector.
Lookup(source) == source["4"]

\* One entry of a published source merged into the target: a record is set,
\* a tombstone deletes, the entry captured for an id that was unknown makes
\* the id unknown again.
PublishEntry(target, id, entry) ==
    CASE entry.st = EXISTENT    -> SourceSet(target, id, entry)
      [] entry.st = NONEXISTENT -> SourceDelete(target, id)
      [] entry.st = UNKNOWN     -> SourceRemove(target, id)
      [] OTHER                  -> target

\* updateTargetFromSource: every entry of the source, merged.
MergeSource(target, source) ==
    [id \in DataIDs |-> PublishEntry(target, id, source[id])[id]]

\* Store.publish(source): updates the internal record source and remembers
\* the changed ids; no subscriber is called.
StorePublish(s, source) ==
    LET next == MergeSource(s.source, source)
    IN [s EXCEPT !.source  = next,
                 !.updated = @ \cup {id \in DataIDs : next[id] # s.source[id]}]

\* Store.notify(): TRUE when the subscription's callback is called.
NotifyCalls(s) ==
    /\ s.updated \cap SeenRecords # {}
    /\ Lookup(s.source) # s.data

\* Store.notify(): the store afterwards.
StoreNotify(s) ==
    [s EXCEPT !.updated = {},
              !.data    = IF NotifyCalls(s) THEN Lookup(s.source) ELSE @]

(***************************************************************************)
(* RelayRecordSourceMutator (design document 4.3).                         *)
(* A mutator value is [base, sink, backup, hasBackup].                     *)
(***************************************************************************)
Mutator(base, sink, backup, hasBackup) ==
    [base |-> base, sink |-> sink, backup |-> backup, hasBackup |-> hasBackup]

\* get(id): the sink's entry if it has one (a tombstone included), else the
\* base's.
MutatorGet(m, id) == IF Has(m.sink, id) THEN m.sink[id] ELSE m.base[id]

MutatorStatus(m, id) ==
    IF Has(m.sink, id) THEN m.sink[id].st ELSE GetStatus(m.base, id)

\* Before the first write to an id: its current value is copied into the
\* backup, unless the backup already holds an entry for the id.  An id that
\* did not exist is captured as such.
CreateBackupRecord(m, id) ==
    IF m.hasBackup /\ ~Has(m.backup, id)
    THEN LET cur == MutatorGet(m, id)
         IN [m EXCEPT !.backup[id] = IF cur.st = NOENTRY THEN UnknownEntry ELSE cur]
    ELSE m

\* create / set / delete route through the capture-then-write path.
MutatorCreate(m, id) ==
    [CreateBackupRecord(m, id) EXCEPT !.sink[id] = RecordCreate]

MutatorDelete(m, id) ==
    [CreateBackupRecord(m, id) EXCEPT !.sink[id] = Tombstone]

MutatorSet(m, id, record) ==
    [CreateBackupRecord(m, id) EXCEPT !.sink[id] = record]

(***************************************************************************)
(* RelayRecordSourceProxy (design document 4.4): field-level operations    *)
(* turned into mutator calls.                                              *)
(***************************************************************************)
\* proxy.get(id) is a record proxy only for an existing record.
ProxyExists(m, id) == MutatorStatus(m, id) = EXISTENT

\* proxy.get(id) || proxy.create(id, typeName)
GetOrCreate(m, id) == IF ProxyExists(m, id) THEN m ELSE MutatorCreate(m, id)

\* record.setValue(value, "name") / record.setValue(value, "count")
SetName(m, id, value) ==
    MutatorSet(m, id, [MutatorGet(m, id) EXCEPT !.name = value])

SetCount(m, id, value) ==
    MutatorSet(m, id, [MutatorGet(m, id) EXCEPT !.count = value])

(***************************************************************************)
(* The callbacks the host supplies: optimistic updaters (StoreUpdater),    *)
(* handlers and payload updaters (SelectorStoreUpdater).                   *)
(***************************************************************************)
Updaters == {"U1", "U2", "U3"}

\* U1: store => (store.get("4") || store.create("4", ..)).setValue("A", "name")
\* U2: the same with "B", then store.delete("5")
\* U3: increments "5".count, creating the record when it does not exist
\* UT: the same as U1 with "T", then throws
StoreUpdater(u, m) ==
    CASE u = "U1" -> SetName(GetOrCreate(m, "4"), "4", "A")
      [] u = "U2" -> MutatorDelete(SetName(GetOrCreate(m, "4"), "4", "B"), "5")
      [] u = "UT" -> SetName(GetOrCreate(m, "4"), "4", "T")
      [] OTHER    ->
           LET n == GetOrCreate(m, "5")
               c == MutatorGet(n, "5").count
           IN SetCount(n, "5", IF c = AbsentCount THEN 1 ELSE c + 1)

\* An updater the host wrote so that it throws, after its write.
UpdaterThrows(u) == u = "UT"

\* The updaters of a host one of whose updaters throws.
FaultUpdaters == {"U1", "UT"}

\* this._handlerProvider && this._handlerProvider(handle): the queue is
\* constructed with no provider ("none"), with one that knows the "viewer"
\* handle ("viewer") or with one that knows other handles only ("other").
Providers == {"none", "viewer", "other"}

\* A provider whose "viewer" handler throws, after its write.
FaultProviders == {"none", "viewer", "faulty"}

HandlerProvided(provider, handle) ==
    \/ provider # "none" /\ provider = handle
    \/ provider = "faulty" /\ handle = "viewer"

HandlerThrows(provider) == provider = "faulty"

\* The "viewer" handler's update(proxy, fieldPayload): writes, under the
\* payload's handleKey ("name") of fieldPayload.dataID, the name of record
\* "4" as read through the proxy.
HandlerUpdate(m, fieldPayload) ==
    IF ProxyExists(m, fieldPayload.dataID)
    THEN SetName(m, fieldPayload.dataID,
                 IF ProxyExists(m, "4") THEN MutatorGet(m, "4").name ELSE AbsentName)
    ELSE m

\* The payload updater of PB: proxy => { r = proxy.get("4"); r && r.setValue(0, "count") }
SelectorStoreUpdater(m) ==
    IF ProxyExists(m, "4") THEN SetCount(m, "4", 0) ELSE m

FieldPayload(dataID, handle) == [dataID |-> dataID, handle |-> handle]

\* The payloads the transport hands to commitPayload:
\*   PA  source {"4": {name: "Official"}}, no field payload, no updater
\*   PB  source {"5": {count: 0}}, a "viewer" field payload on "5", an updater
\*   PT  source {"5": {name: "Partial"}}, no field payload, an updater that
\*       does what the updater of PB does and then throws
PayloadNames == {"PA", "PB"}

\* The payloads handed to the queue of a host whose callbacks can throw.
FaultPayloadNames == {"PB", "PT"}

PayloadSource(p) ==
    CASE p = "PA" -> [EmptySource EXCEPT !["4"] = [RecordCreate EXCEPT !.name = "Official"]]
      [] p = "PT" -> [EmptySource EXCEPT !["5"] = [RecordCreate EXCEPT !.name = "Partial"]]
      [] OTHER    -> [EmptySource EXCEPT !["5"] = [RecordCreate EXCEPT !.count = 0]]

PayloadFields(p) ==
    IF p = "PB" THEN << FieldPayload("5", "viewer") >> ELSE << >>

PayloadHasUpdater(p) == p \in {"PB", "PT"}

PayloadUpdaterThrows(p) == p = "PT"

(***************************************************************************)
(* RelayPublishQueue (RelayPublishQueue.js).                               *)
(***************************************************************************)
VARIABLES
    store,                \* _store: [source, updated, data]
    handlerProvider,      \* _handlerProvider
    backup,               \* _backup
    pendingBackupRebase,  \* _pendingBackupRebase
    pendingPayloads,      \* _pendingPayloads, in insertion order
    pendingUpdaters,      \* _pendingUpdaters, in insertion order
    appliedUpdaters,      \* _appliedUpdaters, in insertion order
    outcome,              \* how the last call of a public method ended
    log,                  \* what the last run() did, in order
    committed,            \* history: the payloads alone, committed in order
    callOrder,            \* history: the active updaters by applyUpdate call
    updaterThrew,         \* history: a run() ended in an updater of _applyUpdates
    scenario              \* history: the calls of a scenario in progress

\* The compiler works on values of its own, apart from the queue.
VARIABLES
    selection,            \* RelayCodeGenerator: the field given to _generateSelection
    generated,            \* RelayCodeGenerator: what _generateSelection returned
    documents,            \* RelayCompilerContext: _documents of the context in hand
    compilerThrew,        \* the compiler's last call threw
    singleRoot,           \* RelaySingleRootTransform: the last root and its context
    linkedField,          \* RelayViewerHandleTransform: a linked field of a document
    transformedField      \* RelayViewerHandleTransform: what visitLinkedField returned

compilerVars == << selection, generated, documents, compilerThrew, singleRoot,
                  linkedField, transformedField >>

vars == << store, handlerProvider, backup, pendingBackupRebase, pendingPayloads,
           pendingUpdaters, appliedUpdaters, outcome, log, committed, callOrder,
           updaterThrew, scenario, compilerVars >>

Range(seq) == {seq[i] : i \in 1..Len(seq)}

\* Set.prototype.add: an element already in the set keeps its place.
SetAdd(seq, x) == IF x \in Range(seq) THEN seq ELSE Append(seq, x)

\* Mutant of SetDelete: the last element takes the place of the deleted one.
SetDeleteSwap(seq, x) ==
    IF x \notin Range(seq) THEN seq
    ELSE LET k == CHOOSE i \in 1..Len(seq) : seq[i] = x
         IN IF k = Len(seq) THEN SubSeq(seq, 1, Len(seq) - 1)
            ELSE SubSeq([seq EXCEPT ![k] = seq[Len(seq)]], 1, Len(seq) - 1)

\* Set.prototype.delete: the others keep their relative order.
SetDelete(seq, x) == SelectSeq(seq, LAMBDA y : y # x)

\* The state run() works on.
Queue ==
    [store    |-> store,
     backup   |-> backup,
     rebase   |-> pendingBackupRebase,
     payloads |-> pendingPayloads,
     pending  |-> pendingUpdaters,
     applied  |-> appliedUpdaters,
     log      |-> << >>,
     threw    |-> FALSE]

\* Mutant of RunHandlers: a field payload without handler is skipped.
RECURSIVE RunHandlersSkipMissing(_, _, _, _)
RunHandlersSkipMissing(r, fieldPayloads, j, provider) ==
    IF j > Len(fieldPayloads) THEN r
    ELSE IF ~HandlerProvided(provider, fieldPayloads[j].handle)
    THEN RunHandlersSkipMissing(r, fieldPayloads, j + 1, provider)
    ELSE RunHandlersSkipMissing(
           [r EXCEPT !.m   = HandlerUpdate(r.m, fieldPayloads[j]),
                     !.log = Append(@, << "handler", fieldPayloads[j].handle >>)],
           fieldPayloads, j + 1, provider)

\* fieldPayloads.forEach(...): the handler of each field payload from the
\* j-th on; the invariant() throws at the first handle without handler.
RECURSIVE RunHandlers(_, _, _, _)
RunHandlers(r, fieldPayloads, j, provider) ==
    IF j > Len(fieldPayloads) THEN r
    ELSE IF ~HandlerProvided(provider, fieldPayloads[j].handle)
    THEN [r EXCEPT !.threw = TRUE]
    ELSE IF HandlerThrows(provider)
    THEN [r EXCEPT !.m     = HandlerUpdate(r.m, fieldPayloads[j]),
                   !.log   = Append(@, << "handler", fieldPayloads[j].handle >>),
                   !.threw = TRUE]
    ELSE RunHandlers(
           [r EXCEPT !.m   = HandlerUpdate(r.m, fieldPayloads[j]),
                     !.log = Append(@, << "handler", fieldPayloads[j].handle >>)],
           fieldPayloads, j + 1, provider)

\* Mutant of CommitOnePayload: the store notifies right after the publish.
CommitOnePayloadNotifies(q, i, provider) ==
    LET p  == q.payloads[i]
        m0 == Mutator(q.store.source, p.source, EmptySource, FALSE)
        h  == RunHandlers([m |-> m0, log |-> q.log, threw |-> FALSE],
                          PayloadFields(p.name), 1, provider)
        u  == IF PayloadHasUpdater(p.name)
              THEN [h EXCEPT !.m   = SelectorStoreUpdater(h.m),
                             !.log = Append(@, << "updater", p.name >>)]
              ELSE h
        st == StorePublish(q.store, u.m.sink)
    IN IF h.threw
       THEN [q EXCEPT !.payloads[i].source = h.m.sink,
                      !.log   = h.log,
                      !.threw = TRUE]
       ELSE [q EXCEPT !.payloads[i].source = u.m.sink,
                      !.store = StoreNotify(st),
                      !.log   = u.log \o << << "publish", p.name >>, << "notify", "store" >> >>
                                  \o (IF NotifyCalls(st)
                                      THEN << << "callback", "subscriber" >> >>
                                      ELSE << >>)]

\* Mutant of CommitOnePayload: the publish calls the subscriber whose
\* snapshot it changed, without notify().
CommitOnePayloadCallsBack(q, i, provider) ==
    LET p  == q.payloads[i]
        m0 == Mutator(q.store.source, p.source, EmptySource, FALSE)
        h  == RunHandlers([m |-> m0, log |-> q.log, threw |-> FALSE],
                          PayloadFields(p.name), 1, provider)
        u  == IF PayloadHasUpdater(p.name)
              THEN [h EXCEPT !.m   = SelectorStoreUpdater(h.m),
                             !.log = Append(@, << "updater", p.name >>)]
              ELSE h
        st == StorePublish(q.store, u.m.sink)
    IN IF h.threw
       THEN [q EXCEPT !.payloads[i].source = h.m.sink,
                      !.log   = h.log,
                      !.threw = TRUE]
       ELSE [q EXCEPT !.payloads[i].source = u.m.sink,
                      !.store = [st EXCEPT !.data = IF NotifyCalls(st)
                                                    THEN Lookup(st.source) ELSE @],
                      !.log   = Append(u.log, << "publish", p.name >>)
                                  \o (IF NotifyCalls(st)
                                      THEN << << "callback", "subscriber" >> >>
                                      ELSE << >>)]

\* Mutant of CommitOnePayload: the source is published as it was committed,
\* before the handlers and the updater run.
CommitOnePayloadPublishesFirst(q, i, provider) ==
    LET p  == q.payloads[i]
        m0 == Mutator(q.store.source, p.source, EmptySource, FALSE)
        h  == RunHandlers([m |-> m0, log |-> Append(q.log, << "publish", p.name >>),
                           threw |-> FALSE],
                          PayloadFields(p.name), 1, provider)
        u  == IF PayloadHasUpdater(p.name)
              THEN [h EXCEPT !.m   = SelectorStoreUpdater(h.m),
                             !.log = Append(@, << "updater", p.name >>)]
              ELSE h
    IN IF h.threw
       THEN [q EXCEPT !.payloads[i].source = h.m.sink,
                      !.store = StorePublish(q.store, p.source),
                      !.log   = h.log,
                      !.threw = TRUE]
       ELSE [q EXCEPT !.payloads[i].source = u.m.sink,
                      !.store = StorePublish(q.store, p.source),
                      !.log   = u.log]

\* The body of _commitPayloads' forEach for the i-th pending payload.
CommitOnePayload(q, i, provider) ==
    LET p  == q.payloads[i]
        m0 == Mutator(q.store.source, p.source, EmptySource, FALSE)
        h  == RunHandlers([m |-> m0, log |-> q.log, threw |-> FALSE],
                          PayloadFields(p.name), 1, provider)
        u  == IF PayloadHasUpdater(p.name)
              THEN [h EXCEPT !.m   = SelectorStoreUpdater(h.m),
                             !.log = Append(@, << "updater", p.name >>)]
              ELSE h
    IN IF h.threw
       THEN [q EXCEPT !.payloads[i].source = h.m.sink,
                      !.log   = h.log,
                      !.threw = TRUE]
       ELSE IF PayloadUpdaterThrows(p.name)
       THEN [q EXCEPT !.payloads[i].source = u.m.sink,
                      !.log   = u.log,
                      !.threw = TRUE]
       ELSE [q EXCEPT !.payloads[i].source = u.m.sink,
                      !.store = StorePublish(q.store, u.m.sink),
                      !.log   = Append(u.log, << "publish", p.name >>)]

\* Mutant of CommitFrom: the payloads are processed last first.
RECURSIVE CommitFromReversed(_, _, _)
CommitFromReversed(q, i, provider) ==
    IF q.threw \/ i > Len(q.payloads) THEN q
    ELSE CommitFromReversed(CommitOnePayload(q, Len(q.payloads) + 1 - i, provider),
                            i + 1, provider)

\* this._pendingPayloads.forEach(...) from the i-th payload on.
RECURSIVE CommitFrom(_, _, _)
CommitFrom(q, i, provider) ==
    IF q.threw \/ i > Len(q.payloads) THEN q
    ELSE CommitFrom(CommitOnePayload(q, i, provider), i + 1, provider)

\* Mutant of CommitPayloads: when a payload throws, what run() published is
\* taken back.
CommitPayloadsRollsBack(q, provider) ==
    IF Len(q.payloads) = 0 THEN q
    ELSE LET r == CommitFrom(q, 1, provider)
         IN IF r.threw THEN [r EXCEPT !.store = q.store]
                       ELSE [r EXCEPT !.payloads = << >>]

\* Mutant of CommitPayloads: the set is cleared also when a payload threw.
CommitPayloadsClearsAlways(q, provider) ==
    IF Len(q.payloads) = 0 THEN q
    ELSE [CommitFrom(q, 1, provider) EXCEPT !.payloads = << >>]

\* _commitPayloads(): the set is cleared only when no payload threw.
CommitPayloads(q, provider) ==
    IF Len(q.payloads) = 0 THEN q
    ELSE LET r == CommitFrom(q, 1, provider)
         IN IF r.threw THEN r ELSE [r EXCEPT !.payloads = << >>]

\* updaters.forEach(updater => updater(proxy)) from the j-th on; threwAt is
\* the place of the updater that threw, 0 when the loop came to its end.
RECURSIVE InvokeUpdaters(_, _, _, _)
InvokeUpdaters(r, updaters, j, kind) ==
    IF j > Len(updaters)
    THEN [m |-> r.m, log |-> r.log, threwAt |-> 0]
    ELSE LET r1 == [m   |-> StoreUpdater(updaters[j], r.m),
                    log |-> Append(r.log, << kind, updaters[j] >>)]
         IN IF UpdaterThrows(updaters[j])
            THEN [m |-> r1.m, log |-> r1.log, threwAt |-> j]
            ELSE InvokeUpdaters(r1, updaters, j + 1, kind)

RECURSIVE AddAll(_, _, _)
AddAll(set, updaters, j) ==
    IF j > Len(updaters) THEN set
    ELSE AddAll(SetAdd(set, updaters[j]), updaters, j + 1)

\* The updaters in the opposite order.
Reverse(seq) == [i \in 1..Len(seq) |-> seq[Len(seq) + 1 - i]]

\* Mutant of ApplyUpdates: the rebase replays the applied updaters last first.
ApplyUpdatesReversed(q) ==
    IF Len(q.pending) > 0 \/ (q.rebase /\ Len(q.applied) > 0)
    THEN LET m0 == Mutator(q.store.source, EmptySource, q.backup, TRUE)
             r0 == [m |-> m0, log |-> q.log]
             r1 == IF q.rebase /\ Len(q.applied) > 0
                   THEN InvokeUpdaters(r0, Reverse(q.applied), 1, "replay")
                   ELSE r0
             r2 == InvokeUpdaters(r1, q.pending, 1, "apply")
         IN [q EXCEPT !.backup  = r2.m.backup,
                      !.applied = AddAll(q.applied, q.pending, 1),
                      !.pending = << >>,
                      !.store   = StorePublish(q.store, r2.m.sink),
                      !.log     = Append(r2.log, << "publish", "sink" >>)]
    ELSE q

\* The updaters from the j-th on, each writing to an empty sink of its own;
\* the sinks are then laid over one another.
RECURSIVE InvokeSeparately(_, _, _, _)
InvokeSeparately(r, updaters, j, kind) ==
    IF j > Len(updaters) THEN r
    ELSE LET m == StoreUpdater(updaters[j], [r.m EXCEPT !.sink = EmptySource])
         IN InvokeSeparately(
              [r EXCEPT !.m   = [m EXCEPT !.sink = [id \in DataIDs |->
                                      IF Has(m.sink, id) THEN m.sink[id]
                                                         ELSE r.m.sink[id]]],
                        !.log = Append(@, << kind, updaters[j] >>)],
              updaters, j + 1, kind)

\* Mutant of ApplyUpdates: an updater does not read what the updaters
\* before it wrote to the sink.
ApplyUpdatesSeparateSinks(q) ==
    IF Len(q.pending) > 0 \/ (q.rebase /\ Len(q.applied) > 0)
    THEN LET m0 == Mutator(q.store.source, EmptySource, q.backup, TRUE)
             r0 == [m |-> m0, log |-> q.log]
             r1 == IF q.rebase /\ Len(q.applied) > 0
                   THEN InvokeSeparately(r0, q.applied, 1, "replay")
                   ELSE r0
             r2 == InvokeSeparately(r1, q.pending, 1, "apply")
         IN [q EXCEPT !.backup  = r2.m.backup,
                      !.applied = AddAll(q.applied, q.pending, 1),
                      !.pending = << >>,
                      !.store   = StorePublish(q.store, r2.m.sink),
                      !.log     = Append(r2.log, << "publish", "sink" >>)]
    ELSE q

\* Mutant of ApplyUpdates: the updaters write to the store's record source,
\* and no sink is published.
ApplyUpdatesInPlace(q) ==
    IF Len(q.pending) > 0 \/ (q.rebase /\ Len(q.applied) > 0)
    THEN LET m0 == Mutator(q.store.source, EmptySource, q.backup, TRUE)
             r0 == [m |-> m0, log |-> q.log]
             r1 == IF q.rebase /\ Len(q.applied) > 0
                   THEN InvokeUpdaters(r0, q.applied, 1, "replay")
                   ELSE r0
             r2 == InvokeUpdaters(r1, q.pending, 1, "apply")
         IN [q EXCEPT !.backup  = r2.m.backup,
                      !.applied = AddAll(q.applied, q.pending, 1),
                      !.pending = << >>,
                      !.store   = [q.store EXCEPT
                                     !.source = MergeSource(@, r2.m.sink)],
                      !.log     = r2.log]
    ELSE q

\* Mutant of ApplyUpdates: the sink is not published.
ApplyUpdatesNoPublish(q) ==
    IF Len(q.pending) > 0 \/ (q.rebase /\ Len(q.applied) > 0)
    THEN LET m0 == Mutator(q.store.source, EmptySource, q.backup, TRUE)
             r0 == [m |-> m0, log |-> q.log]
             r1 == IF q.rebase /\ Len(q.applied) > 0
                   THEN InvokeUpdaters(r0, q.applied, 1, "replay")
                   ELSE r0
             r2 == InvokeUpdaters(r1, q.pending, 1, "apply")
         IN [q EXCEPT !.backup  = r2.m.backup,
                      !.applied = AddAll(q.applied, q.pending, 1),
                      !.pending = << >>,
                      !.log     = Append(r2.log, << "publish", "sink" >>)]
    ELSE q

\* Mutant of ApplyUpdates: the mutator is given no backup.
ApplyUpdatesNoBackup(q) ==
    IF Len(q.pending) > 0 \/ (q.rebase /\ Len(q.applied) > 0)
    THEN LET m0 == Mutator(q.store.source, EmptySource, q.backup, FALSE)
             r0 == [m |-> m0, log |-> q.log]
             r1 == IF q.rebase /\ Len(q.applied) > 0
                   THEN InvokeUpdaters(r0, q.applied, 1, "replay")
                   ELSE r0
             r2 == InvokeUpdaters(r1, q.pending, 1, "apply")
         IN [q EXCEPT !.backup  = r2.m.backup,
                      !.applied = AddAll(q.applied, q.pending, 1),
                      !.pending = << >>,
                      !.store   = StorePublish(q.store, r2.m.sink),
                      !.log     = Append(r2.log, << "publish", "sink" >>)]
    ELSE q

\* Mutant of ApplyUpdates: each run() captures into a backup of its own,
\* whose entries then replace those this._backup holds.
ApplyUpdatesFreshBackup(q) ==
    IF Len(q.pending) > 0 \/ (q.rebase /\ Len(q.applied) > 0)
    THEN LET m0 == Mutator(q.store.source, EmptySource, EmptySource, TRUE)
             r0 == [m |-> m0, log |-> q.log]
             r1 == IF q.rebase /\ Len(q.applied) > 0
                   THEN InvokeUpdaters(r0, q.applied, 1, "replay")
                   ELSE r0
             r2 == InvokeUpdaters(r1, q.pending, 1, "apply")
         IN [q EXCEPT !.backup  = [id \in DataIDs |->
                                      IF Has(r2.m.backup, id) THEN r2.m.backup[id]
                                                              ELSE q.backup[id]],
                      !.applied = AddAll(q.applied, q.pending, 1),
                      !.pending = << >>,
                      !.store   = StorePublish(q.store, r2.m.sink),
                      !.log     = Append(r2.log, << "publish", "sink" >>)]
    ELSE q

\* Mutant of ApplyUpdates: the applied updaters are replayed by every run(),
\* whether a rebase is flagged or not.
ApplyUpdatesAlwaysReplay(q) ==
    IF Len(q.pending) > 0 \/ Len(q.applied) > 0
    THEN LET m0 == Mutator(q.store.source, EmptySource, q.backup, TRUE)
             r0 == [m |-> m0, log |-> q.log]
             r1 == InvokeUpdaters(r0, q.applied, 1, "replay")
             r2 == InvokeUpdaters(r1, q.pending, 1, "apply")
         IN [q EXCEPT !.backup  = r2.m.backup,
                      !.applied = AddAll(q.applied, q.pending, 1),
                      !.pending = << >>,
                      !.store   = StorePublish(q.store, r2.m.sink),
                      !.log     = Append(r2.log, << "publish", "sink" >>)]
    ELSE q

\* Mutant of ApplyUpdates: a run() with updaters pending replays the applied
\* ones first, rebase or not.
ApplyUpdatesReplayWithPending(q) ==
    IF Len(q.pending) > 0 \/ (q.rebase /\ Len(q.applied) > 0)
    THEN LET m0 == Mutator(q.store.source, EmptySource, q.backup, TRUE)
             r0 == [m |-> m0, log |-> q.log]
             r1 == IF Len(q.applied) > 0
                   THEN InvokeUpdaters(r0, q.applied, 1, "replay")
                   ELSE r0
             r2 == InvokeUpdaters(r1, q.pending, 1, "apply")
         IN [q EXCEPT !.backup  = r2.m.backup,
                      !.applied = AddAll(q.applied, q.pending, 1),
                      !.pending = << >>,
                      !.store   = StorePublish(q.store, r2.m.sink),
                      !.log     = Append(r2.log, << "publish", "sink" >>)]
    ELSE q

\* Mutant of ApplyUpdates: the updaters applied stay pending.
ApplyUpdatesKeepsPending(q) ==
    IF Len(q.pending) > 0 \/ (q.rebase /\ Len(q.applied) > 0)
    THEN LET m0 == Mutator(q.store.source, EmptySource, q.backup, TRUE)
             r0 == [m |-> m0, log |-> q.log]
             r1 == IF q.rebase /\ Len(q.applied) > 0
                   THEN InvokeUpdaters(r0, q.applied, 1, "replay")
                   ELSE r0
             r2 == InvokeUpdaters(r1, q.pending, 1, "apply")
         IN [q EXCEPT !.backup  = r2.m.backup,
                      !.applied = q.applied \o q.pending,
                      !.store   = StorePublish(q.store, r2.m.sink),
                      !.log     = Append(r2.log, << "publish", "sink" >>)]
    ELSE q

\* Mutant of ApplyUpdates: the pending updaters are invoked before the
\* applied ones are replayed.
ApplyUpdatesPendingFirst(q) ==
    IF Len(q.pending) > 0 \/ (q.rebase /\ Len(q.applied) > 0)
    THEN LET m0 == Mutator(q.store.source, EmptySource, q.backup, TRUE)
             r0 == [m |-> m0, log |-> q.log]
             r1 == InvokeUpdaters(r0, q.pending, 1, "apply")
             r2 == IF q.rebase /\ Len(q.applied) > 0
                   THEN InvokeUpdaters(r1, q.applied, 1, "replay")
                   ELSE r1
         IN [q EXCEPT !.backup  = r2.m.backup,
                      !.applied = AddAll(q.applied, q.pending, 1),
                      !.pending = << >>,
                      !.store   = StorePublish(q.store, r2.m.sink),
                      !.log     = Append(r2.log, << "publish", "sink" >>)]
    ELSE q

\* Mutant of ApplyUpdates: the updaters are added to the applied ones after
\* the loop, so none is when one throws.
ApplyUpdatesAddsAfterLoop(q) ==
    IF Len(q.pending) > 0 \/ (q.rebase /\ Len(q.applied) > 0)
    THEN LET m0 == Mutator(q.store.source, EmptySource, q.backup, TRUE)
             r0 == [m |-> m0, log |-> q.log, threwAt |-> 0]
             r1 == IF q.rebase /\ Len(q.applied) > 0
                   THEN InvokeUpdaters(r0, q.applied, 1, "replay")
                   ELSE r0
             r2 == InvokeUpdaters(r1, q.pending, 1, "apply")
         IN IF r1.threwAt > 0 \/ r2.threwAt > 0
            THEN [q EXCEPT !.backup = r2.m.backup,
                           !.log    = r2.log,
                           !.threw  = TRUE]
            ELSE [q EXCEPT !.backup  = r2.m.backup,
                           !.applied = AddAll(q.applied, q.pending, 1),
                           !.pending = << >>,
                           !.store   = StorePublish(q.store, r2.m.sink),
                           !.log     = Append(r2.log, << "publish", "sink" >>)]
    ELSE q

\* _applyUpdates(), to its end or to the updater that throws: the mutator
\* has written this._backup by then, and the updaters of the pass that
\* returned are in _appliedUpdaters.
ApplyUpdates(q) ==
    IF Len(q.pending) > 0 \/ (q.rebase /\ Len(q.applied) > 0)
    THEN LET m0 == Mutator(q.store.source, EmptySource, q.backup, TRUE)
             r0 == [m |-> m0, log |-> q.log, threwAt |-> 0]
             r1 == IF q.rebase /\ Len(q.applied) > 0
                   THEN InvokeUpdaters(r0, q.applied, 1, "replay")
                   ELSE r0
             r2 == InvokeUpdaters(r1, q.pending, 1, "apply")
         IN IF r1.threwAt > 0
            THEN [q EXCEPT !.backup = r1.m.backup,
                           !.log    = r1.log,
                           !.threw  = TRUE]
            ELSE IF r2.threwAt > 0
            THEN [q EXCEPT !.backup  = r2.m.backup,
                           !.applied = AddAll(q.applied,
                                              SubSeq(q.pending, 1, r2.threwAt - 1), 1),
                           !.log     = r2.log,
                           !.threw   = TRUE]
            ELSE [q EXCEPT !.backup  = r2.m.backup,
                           !.applied = AddAll(q.applied, q.pending, 1),
                           !.pending = << >>,
                           !.store   = StorePublish(q.store, r2.m.sink),
                           !.log     = Append(r2.log, << "publish", "sink" >>)]
    ELSE q

\* Mutant of RestoreBackup: the backup is replaced without being published.
RestoreBackupNoPublish(q) ==
    IF q.rebase /\ Size(q.backup) > 0
    THEN [q EXCEPT !.backup = EmptySource]
    ELSE q

\* Mutant of RestoreBackup: the backup is published and kept.
RestoreBackupKeepsEntries(q) ==
    IF q.rebase /\ Size(q.backup) > 0
    THEN [q EXCEPT !.store = StorePublish(q.store, q.backup),
                   !.log   = Append(@, << "publish", "backup" >>)]
    ELSE q

\* Mutant of RestoreBackup: the backup is restored only while an updater is
\* applied.
RestoreBackupWhileApplied(q) ==
    IF q.rebase /\ Size(q.backup) > 0 /\ Len(q.applied) > 0
    THEN [q EXCEPT !.store  = StorePublish(q.store, q.backup),
                   !.backup = EmptySource,
                   !.log    = Append(@, << "publish", "backup" >>)]
    ELSE q

\* The first statement of run(): the backup is published and replaced.
RestoreBackup(q) ==
    IF q.rebase /\ Size(q.backup) > 0
    THEN [q EXCEPT !.store  = StorePublish(q.store, q.backup),
                   !.backup = EmptySource,
                   !.log    = Append(@, << "publish", "backup" >>)]
    ELSE q

\* Mutant of FinishRun: notify() is called only when something was published.
FinishRunNotifyIfPublished(q) ==
    IF q.log = << >> THEN [q EXCEPT !.rebase = FALSE]
    ELSE [q EXCEPT !.rebase = FALSE,
                   !.store  = StoreNotify(q.store),
                   !.log    = q.log \o << << "notify", "store" >> >>
                                \o (IF NotifyCalls(q.store)
                                    THEN << << "callback", "subscriber" >> >>
                                    ELSE << >>)]

\* Mutant of FinishRun: notify() calls the subscriber every time.
FinishRunCallsBackAlways(q) ==
    [q EXCEPT !.rebase = FALSE,
              !.store  = [q.store EXCEPT !.updated = {},
                                         !.data    = Lookup(q.store.source)],
              !.log    = q.log \o << << "notify", "store" >>,
                                     << "callback", "subscriber" >> >>]

\* Mutant of FinishRun: the rebase stays flagged.
FinishRunKeepsRebase(q) ==
    [q EXCEPT !.store  = StoreNotify(q.store),
              !.log    = q.log \o << << "notify", "store" >> >>
                           \o (IF NotifyCalls(q.store)
                               THEN << << "callback", "subscriber" >> >>
                               ELSE << >>)]

\* The last two statements of run().
FinishRun(q) ==
    [q EXCEPT !.rebase = FALSE,
              !.store  = StoreNotify(q.store),
              !.log    = q.log \o << << "notify", "store" >> >>
                           \o (IF NotifyCalls(q.store)
                               THEN << << "callback", "subscriber" >> >>
                               ELSE << >>)]

\* Mutant of RunQueue: the updaters are applied before the payloads are
\* committed.
RunQueueUpdatesFirst(q, provider) ==
    LET q1 == CommitPayloads(ApplyUpdates(RestoreBackup(q)), provider)
    IN IF q1.threw THEN q1 ELSE FinishRun(q1)

\* Mutant of RunQueue: the backup is restored after the payloads are
\* committed.
RunQueueRestoresLate(q, provider) ==
    LET q1 == CommitPayloads(q, provider)
        q2 == ApplyUpdates(RestoreBackup(q1))
    IN IF q1.threw THEN q1
       ELSE IF q2.threw THEN q2
       ELSE FinishRun(q2)

\* run(), to its end or to the statement that throws.
RunQueue(q, provider) ==
    LET q1 == CommitPayloads(RestoreBackup(q), provider)
        q2 == ApplyUpdates(q1)
    IN IF q1.threw THEN q1
       ELSE IF q2.threw THEN q2
       ELSE FinishRun(q2)

\* Mutant of ApplyUpdateAllowed: only the pending updaters are looked at.
ApplyUpdateAllowedPendingOnly(q, u) == u \notin Range(q.pending)

\* applyUpdate's invariant(): the updater is neither applied nor pending.
ApplyUpdateAllowed(q, u) == u \notin Range(q.applied) /\ u \notin Range(q.pending)

\* applyUpdate(updater), when its invariant holds.
ApplyUpdateQueue(q, u) == [q EXCEPT !.pending = SetAdd(q.pending, u)]

\* Mutant of RevertUpdateQueue: reverting an applied updater flags no rebase.
RevertUpdateNoRebase(q, u) ==
    IF u \in Range(q.pending)
    THEN [q EXCEPT !.pending = SetDelete(q.pending, u)]
    ELSE IF u \in Range(q.applied)
    THEN [q EXCEPT !.applied = SetDelete(q.applied, u)]
    ELSE q

\* Mutant of RevertUpdateQueue: a pending updater stays pending.
RevertUpdateAppliedOnly(q, u) ==
    IF u \in Range(q.applied)
    THEN [q EXCEPT !.rebase = TRUE, !.applied = SetDelete(q.applied, u)]
    ELSE q

\* Mutant of RevertUpdateQueue: dropping a pending updater flags a rebase.
RevertUpdateAlwaysRebase(q, u) ==
    IF u \in Range(q.pending)
    THEN [q EXCEPT !.rebase = TRUE, !.pending = SetDelete(q.pending, u)]
    ELSE IF u \in Range(q.applied)
    THEN [q EXCEPT !.rebase = TRUE, !.applied = SetDelete(q.applied, u)]
    ELSE q

\* revertUpdate(updater)
RevertUpdateQueue(q, u) ==
    IF u \in Range(q.pending)
    THEN [q EXCEPT !.pending = SetDelete(q.pending, u)]
    ELSE IF u \in Range(q.applied)
    THEN [q EXCEPT !.rebase = TRUE, !.applied = SetDelete(q.applied, u)]
    ELSE q

\* Mutant of RevertAllQueue: the sets are cleared, no rebase is flagged.
RevertAllNoRebase(q) ==
    [q EXCEPT !.pending = << >>, !.applied = << >>]

\* revertAll()
RevertAllQueue(q) ==
    [q EXCEPT !.rebase = TRUE, !.pending = << >>, !.applied = << >>]

\* Mutant of CommitPayloadQueue: no rebase is flagged.
CommitPayloadNoRebase(q, p) ==
    [q EXCEPT !.payloads = Append(q.payloads, [name |-> p, source |-> PayloadSource(p)])]

\* Mutant of CommitPayloadQueue: the payload's source is published at once.
CommitPayloadEager(q, p) ==
    [q EXCEPT !.rebase   = TRUE,
              !.store    = StorePublish(q.store, PayloadSource(p)),
              !.payloads = Append(q.payloads, [name |-> p, source |-> PayloadSource(p)])]

\* commitPayload(selector, {fieldPayloads, source}, updater)
CommitPayloadQueue(q, p) ==
    [q EXCEPT !.rebase   = TRUE,
              !.payloads = Append(q.payloads, [name |-> p, source |-> PayloadSource(p)])]

(***************************************************************************)
(* History kept beside the queue, to state what the queue is meant to do.  *)
(***************************************************************************)
\* One payload committed onto a source that holds no optimistic write, every
\* handler being registered.
RECURSIVE ReferenceHandlers(_, _, _)
ReferenceHandlers(m, fieldPayloads, j) ==
    IF j > Len(fieldPayloads) THEN m
    ELSE ReferenceHandlers(HandlerUpdate(m, fieldPayloads[j]), fieldPayloads, j + 1)

ReferenceCommit(source, p) ==
    LET m0 == Mutator(source, PayloadSource(p), EmptySource, FALSE)
        m1 == ReferenceHandlers(m0, PayloadFields(p), 1)
        m2 == IF PayloadHasUpdater(p) THEN SelectorStoreUpdater(m1) ELSE m1
    IN MergeSource(source, m2.sink)

RECURSIVE ReferenceCommitAll(_, _, _)
ReferenceCommitAll(source, payloads, i) ==
    IF i > Len(payloads) THEN source
    ELSE ReferenceCommitAll(ReferenceCommit(source, payloads[i].name), payloads, i + 1)

\* The updaters applied one after the other, each in a transaction of its own.
RECURSIVE ReferenceApply(_, _, _)
ReferenceApply(source, updaters, j) ==
    IF j > Len(updaters) THEN source
    ELSE ReferenceApply(
           MergeSource(source,
                       StoreUpdater(updaters[j],
                                    Mutator(source, EmptySource, EmptySource, FALSE)).sink),
           updaters, j + 1)

\* Nothing is queued: no payload, no updater, no rebase.
Idle == /\ pendingPayloads = << >>
        /\ pendingUpdaters = << >>
        /\ ~pendingBackupRebase

NoScenario ==
    [phase |-> "none", u |-> "none", before |-> EmptySource, was |-> << >>]

\* The calls made since a scenario began on an idle queue, one letter per
\* call: "a" applyUpdate(u), "v" revertUpdate(u), "c" commitPayload, "r" a
\* completed run(), "x" revertAll().  A scenario begins with applyUpdate(u),
\* with revertUpdate(u) of an applied updater or with revertAll(); before is
\* the store's source at that call, was is appliedUpdaters at the
\* revertUpdate(u) of an applied u or at the revertAll().  Payloads committed
\* between revertAll() and run() leave the scenario at "x"; payloads committed
\* after applyUpdate(u), before or after the run() that applies u, bring it
\* to "ac", whatever their number.
ScenarioApply(u, allowed) ==
    IF allowed /\ Idle
    THEN [phase |-> "a", u |-> u, before |-> store.source, was |-> << >>]
    ELSE NoScenario

ScenarioRevert(u) ==
    IF scenario.u = u /\ scenario.phase = "a"
    THEN [scenario EXCEPT !.phase = "av"]
    ELSE IF scenario.u = u /\ scenario.phase = "ar"
    THEN [scenario EXCEPT !.phase = "arv", !.was = appliedUpdaters]
    ELSE IF scenario.u = u /\ scenario.phase = "acr"
    THEN [scenario EXCEPT !.phase = "acrv", !.was = appliedUpdaters]
    ELSE IF Idle /\ u \in Range(appliedUpdaters)
    THEN [phase |-> "v", u |-> u, before |-> store.source, was |-> appliedUpdaters]
    ELSE NoScenario

ScenarioRevertAll ==
    [phase |-> "x", u |-> "none", before |-> EmptySource, was |-> appliedUpdaters]

ScenarioCommit ==
    IF scenario.phase \in {"v", "arv"}
    THEN [scenario EXCEPT !.phase = "vc"]
    ELSE IF scenario.phase = "x" THEN scenario
    ELSE IF scenario.phase \in {"a", "ar", "ac"}
    THEN [scenario EXCEPT !.phase = "ac"]
    ELSE NoScenario

ScenarioRun(threw) ==
    IF ~threw /\ scenario.phase \in {"a", "av", "arv", "v", "vc", "x", "ac", "acrv"}
    THEN [scenario EXCEPT !.phase = CASE @ = "a"   -> "ar"
                                      [] @ = "av"  -> "avr"
                                      [] @ = "arv" -> "arvr"
                                      [] @ = "ac"  -> "acr"
                                      [] @ = "acrv" -> "acrvr"
                                      [] @ = "v"   -> "vr"
                                      [] @ = "x"   -> "xr"
                                      [] OTHER     -> "vcr"]
    ELSE NoScenario

(***************************************************************************)
(* The compiler: RelayCodeGenerator's arguments and storage keys.          *)
(***************************************************************************)
\* A field takes at most MaxArgs arguments.
MaxArgs == 3

\* JavaScript's null and undefined.
NULL == "null"

\* Argument names, as the < of JavaScript strings orders them.
AllArgNames == << "after", "first", "orderby", "size", "type" >>

ArgNames == {AllArgNames[i] : i \in 1..MaxArgs}

NameIndex(name) == CHOOSE i \in 1..Len(AllArgNames) : AllArgNames[i] = name

\* a.name < b.name
NameLess(a, b) == NameIndex(a) < NameIndex(b)

\* Argument values: literals (null among them), a variable, and a list with
\* a nested variable.
ArgumentValues ==
    { [kind |-> "Literal", value |-> v, variableName |-> NULL] :
        v \in {NULL, "10", "20"} }
    \cup { [kind |-> "Variable", value |-> NULL, variableName |-> "count"],
           [kind |-> "ListValue", value |-> NULL, variableName |-> NULL] }

Arguments == [name : ArgNames, value : ArgumentValues]

\* The arguments of a field as written: no name twice.
ArgumentLists ==
    UNION { { args \in [1..n -> Arguments] :
                \A i, j \in 1..n : args[i].name = args[j].name => i = j } :
            n \in 0..MaxArgs }

FieldNames == {"friends", "name"}

\* The forEach of _generateArguments; threw when invariant(false) is reached.
RECURSIVE PushArguments(_, _, _)
PushArguments(generatedArgs, args, i) ==
    IF i > Len(args) THEN [threw |-> FALSE, args |-> generatedArgs]
    ELSE IF args[i].value.kind = "Variable"
    THEN PushArguments(Append(generatedArgs,
                              [kind         |-> "Variable",
                               name         |-> args[i].name,
                               value        |-> NULL,
                               variableName |-> args[i].value.variableName]),
                       args, i + 1)
    ELSE IF args[i].value.kind = "Literal"
    THEN IF args[i].value.value # NULL
         THEN PushArguments(Append(generatedArgs,
                                   [kind         |-> "Literal",
                                    name         |-> args[i].name,
                                    value        |-> args[i].value.value,
                                    variableName |-> NULL]),
                            args, i + 1)
         ELSE PushArguments(generatedArgs, args, i + 1)
    ELSE [threw |-> TRUE, args |-> << >>]

\* arg goes before the first element whose name is greater.
RECURSIVE SortedInsert(_, _)
SortedInsert(sorted, arg) ==
    IF sorted = << >> THEN << arg >>
    ELSE IF NameLess(arg.name, Head(sorted).name) THEN << arg >> \o sorted
    ELSE << Head(sorted) >> \o SortedInsert(Tail(sorted), arg)

\* generatedArgs.sort((a, b) => a.name < b.name ? -1 : a.name > b.name ? 1 : 0)
RECURSIVE SortByName(_)
SortByName(generatedArgs) ==
    IF generatedArgs = << >> THEN << >>
    ELSE SortedInsert(SortByName(SubSeq(generatedArgs, 1, Len(generatedArgs) - 1)),
                      generatedArgs[Len(generatedArgs)])

\* Mutant of GenerateArguments: the generated arguments are not sorted.
GenerateArgumentsUnsorted(args) ==
    LET pushed == PushArguments(<< >>, args, 1)
    IN IF pushed.threw THEN [threw |-> TRUE, isNull |-> TRUE, args |-> << >>]
       ELSE IF Len(pushed.args) = 0
       THEN [threw |-> FALSE, isNull |-> TRUE, args |-> << >>]
       ELSE [threw |-> FALSE, isNull |-> FALSE, args |-> pushed.args]

\* _generateArguments(args): null (isNull) or a non-empty array.
GenerateArguments(args) ==
    LET pushed == PushArguments(<< >>, args, 1)
    IN IF pushed.threw THEN [threw |-> TRUE, isNull |-> TRUE, args |-> << >>]
       ELSE IF Len(pushed.args) = 0
       THEN [threw |-> FALSE, isNull |-> TRUE, args |-> << >>]
       ELSE [threw |-> FALSE, isNull |-> FALSE, args |-> SortByName(pushed.args)]

\* preparedArgs[name] = value: a new key goes last, a known key keeps its place.
ObjectSet(object, name, value) ==
    IF \E k \in 1..Len(object) : object[k][1] = name
    THEN [k \in 1..Len(object) |->
            IF object[k][1] = name THEN << name, value >> ELSE object[k]]
    ELSE Append(object, << name, value >>)

\* The forEach of getStorageKey.
RECURSIVE PrepareArgs(_, _, _)
PrepareArgs(r, args, i) ==
    IF i > Len(args) THEN r
    ELSE IF args[i].kind # "Literal"
    THEN PrepareArgs([r EXCEPT !.isLiteral = FALSE], args, i + 1)
    ELSE PrepareArgs([r EXCEPT !.preparedArgs =
                                   ObjectSet(@, args[i].name, args[i].value)],
                     args, i + 1)

\* RelayStoreUtils.formatStorageKey: the field's name, then the entries of
\* the object in the object's own order.
RECURSIVE FormatEntries(_, _)
FormatEntries(object, k) ==
    IF k > Len(object) THEN << >>
    ELSE (IF k > 1 THEN << "," >> ELSE << >>)
           \o << object[k][1], ":", object[k][2] >>
           \o FormatEntries(object, k + 1)

FormatStorageKey(fieldName, object) ==
    << fieldName, "{" >> \o FormatEntries(object, 1) \o << "}" >>

\* getStorageKey(fieldName, args), args being what _generateArguments returned.
GetStorageKey(fieldName, args) ==
    IF args.isNull \/ Len(args.args) = 0 THEN [isNull |-> TRUE, key |-> << >>]
    ELSE LET r == PrepareArgs([isLiteral |-> TRUE, preparedArgs |-> << >>],
                              args.args, 1)
         IN IF r.isLiteral
            THEN [isNull |-> FALSE, key |-> FormatStorageKey(fieldName, r.preparedArgs)]
            ELSE [isNull |-> TRUE, key |-> << >>]

\* _generateSelection(selection) for a ScalarField or a LinkedField: the
\* node's args and storageKey.
GenerateField(field) ==
    LET args == GenerateArguments(field.args)
    IN IF args.threw
       THEN [kind |-> "threw", args |-> args, storageKey |-> [isNull |-> TRUE, key |-> << >>]]
       ELSE [kind |-> "field", args |-> args,
             storageKey |-> GetStorageKey(field.name, args)]

NotGenerated ==
    [kind |-> "none", args |-> [threw |-> FALSE, isNull |-> TRUE, args |-> << >>],
     storageKey |-> [isNull |-> TRUE, key |-> << >>]]

NoSelection == [name |-> NULL, args |-> << >>]

(***************************************************************************)
(* The compiler: RelayCompilerContext and RelaySingleRootTransform.  A     *)
(* context's _documents maps names to documents; the order of insertion,   *)
(* which only documents() shows, is left out.  Of a node its name, its     *)
(* kind and the fragment spreads of its selections, in document order,     *)
(* are kept.                                                               *)
(***************************************************************************)
\* A document has at most MaxSpreads fragment spreads.
MaxSpreads == 2

DocumentNames == {"Foo", "Bar", "Baz"}

SpreadLists ==
    UNION { { spreads \in [1..n -> DocumentNames] :
                \A i, j \in 1..n : spreads[i] = spreads[j] => i = j } :
            n \in 0..MaxSpreads }

\* Fragment | Root
Nodes == [name : DocumentNames, kind : {"Root", "Fragment"}, spreads : SpreadLists]

\* What _documents.get(name) gives for a name it does not hold.
NoDocument == [name |-> NULL, kind |-> "none", spreads |-> << >>]

\* new RelayCompilerContext(schema)
EmptyContext == [name \in DocumentNames |-> NoDocument]

\* _documents.has(name)
ContextHas(context, name) == context[name].kind # "none"

\* get(name)
ContextGet(context, name) == context[name]

\* Mutant of ContextAddAllowed: a name is taken only by a document of the
\* same kind.
ContextAddAllowedPerKind(context, node) ==
    context[node.name].kind # node.kind

\* add's invariant(): no document of that name.
ContextAddAllowed(context, node) == ~ContextHas(context, node.name)

\* add(node), when its invariant holds.
ContextAdd(context, node) == [context EXCEPT ![node.name] = node]

\* remove(name)
ContextRemove(context, name) == [context EXCEPT ![name] = NoDocument]

\* The names of the documents of a context.
ContextNames(context) == {name \in DocumentNames : ContextHas(context, name)}

\* Mutant of VisitSpreads: the fragments spread in a fragment are not visited.
RECURSIVE VisitSpreadsShallow(_, _, _, _)
VisitSpreadsShallow(r, spreads, i, context) ==
    IF r.threw \/ i > Len(spreads) THEN r
    ELSE IF spreads[i] \in Range(r.visited)
    THEN VisitSpreadsShallow(r, spreads, i + 1, context)
    ELSE LET r1 == [r EXCEPT !.visited = Append(@, spreads[i])]
         IN IF ~ContextHas(context, spreads[i])
            THEN [r1 EXCEPT !.threw = TRUE]
            ELSE VisitSpreadsShallow(r1, spreads, i + 1, context)

\* visitSubFragments: visit() calls FragmentSpread for the spreads in
\* document order; visited is one Set for the whole traversal; nullthrows
\* throws for a spread whose fragment the context does not hold.
RECURSIVE VisitSpreads(_, _, _, _)
VisitSpreads(r, spreads, i, context) ==
    IF r.threw \/ i > Len(spreads) THEN r
    ELSE IF spreads[i] \in Range(r.visited)
    THEN VisitSpreads(r, spreads, i + 1, context)
    ELSE LET r1 == [r EXCEPT !.visited = Append(@, spreads[i])]
         IN IF ~ContextHas(context, spreads[i])
            THEN [r1 EXCEPT !.threw = TRUE]
            ELSE VisitSpreads(
                   VisitSpreads(r1, ContextGet(context, spreads[i]).spreads, 1, context),
                   spreads, i + 1, context)

VisitSubFragments(fragment, context, visited) ==
    VisitSpreads([visited |-> visited, threw |-> FALSE], fragment.spreads, 1, context)

\* docNames.forEach(name => ctx = ctx.add(nullthrows(context.get(name))))
RECURSIVE AddDocuments(_, _, _, _)
AddDocuments(ctx, docNames, i, context) ==
    IF i > Len(docNames) THEN [threw |-> FALSE, context |-> ctx]
    ELSE IF ~ContextHas(context, docNames[i])
            \/ ~ContextAddAllowed(ctx, ContextGet(context, docNames[i]))
    THEN [threw |-> TRUE, context |-> ctx]
    ELSE AddDocuments(ContextAdd(ctx, ContextGet(context, docNames[i])),
                      docNames, i + 1, context)

\* RelaySingleRootTransform.transform(context, root)
SingleRootTransform(context, root) ==
    LET docNames == VisitSubFragments(root, context, << root.name >>)
    IN IF docNames.threw THEN [threw |-> TRUE, context |-> EmptyContext]
       ELSE AddDocuments(EmptyContext, docNames.visited, 1, context)

NoTransform == [root |-> NULL, context |-> EmptyContext]

\* A context to which nothing was added.

(***************************************************************************)
(* The compiler: RelayViewerHandleTransform.  Of a linked field its type,  *)
(* its handles and the linked fields among its selections are kept.        *)
(***************************************************************************)
\* A field has at most MaxHandles handles and MaxChildren linked fields
\* among its selections.
MaxHandles == 2

MaxChildren == 1

VIEWER_HANDLE == "viewer"

VIEWER_TYPE == "Viewer"

HandleNames == {VIEWER_HANDLE, "connection", "other"}

\* The types of the schema's linked fields, with their wrappers.
FieldTypes == {"Viewer", "Viewer!", "User", "[User]"}

\* getRawType(type): the type without its non-null and list wrappers.
GetRawType(type) ==
    CASE type = "Viewer!" -> "Viewer"
      [] type = "[User]"  -> "User"
      [] OTHER            -> type

\* field.handles: absent, or a list in which no handle occurs twice.
NoHandles == [isNull |-> TRUE, list |-> << >>]

HandleLists ==
    { NoHandles }
    \cup UNION { { [isNull |-> FALSE, list |-> list] :
                     list \in { l \in [1..n -> HandleNames] :
                                  \A i, j \in 1..n : l[i] = l[j] => i = j } } :
                 n \in 0..MaxHandles }

\* Linked fields without linked fields below them, and with.
LeafFields == [type : FieldTypes, handles : HandleLists, selections : {<< >>}]

LinkedFields ==
    [type : FieldTypes, handles : HandleLists,
     selections : UNION { [1..n -> LeafFields] : n \in 0..MaxChildren }]

\* Array.prototype.indexOf, counting from 0; -1 when the element is not there.
IndexOf(list, x) ==
    IF \E i \in 1..Len(list) : list[i] = x
    THEN (CHOOSE i \in 1..Len(list) :
            list[i] = x /\ \A j \in 1..(i - 1) : list[j] # x) - 1
    ELSE -1

\* !n for a number n
NotNumber(n) == n = 0

\* visitLinkedField(field, state); this.traverse(field, state) visits the
\* linked fields among the field's selections.
RECURSIVE VisitLinkedField(_, _)
VisitLinkedField(field, state) ==
    LET transformedNode ==
            [field EXCEPT !.selections =
                [k \in 1..Len(field.selections) |->
                    VisitLinkedField(field.selections[k], state)]]
        handles == transformedNode.handles
    IN IF GetRawType(field.type) # state THEN transformedNode
       ELSE IF ~handles.isNull /\ NotNumber(IndexOf(handles.list, VIEWER_HANDLE))
       THEN [transformedNode EXCEPT
                !.handles = [isNull |-> FALSE,
                             list   |-> Append(handles.list, VIEWER_HANDLE)]]
       ELSE IF handles.isNull
       THEN [transformedNode EXCEPT
                !.handles = [isNull |-> FALSE, list |-> << VIEWER_HANDLE >>]]
       ELSE transformedNode

NoField == [type |-> NULL, handles |-> NoHandles, selections |-> << >>]

(***************************************************************************)
(* The compiler's state machines.  A compilation is apart from the queue:  *)
(* the queue's variables keep the values of a queue nobody calls, and the  *)
(* queue's methods leave the compiler's variables alone.                   *)
(***************************************************************************)
queueVars == << store, handlerProvider, backup, pendingBackupRebase,
                pendingPayloads, pendingUpdaters, appliedUpdaters, outcome, log,
                committed, callOrder, updaterThrew, scenario >>

QueueUnused ==
    /\ store = [source |-> EmptySource, updated |-> {}, data |-> Lookup(EmptySource)]
    /\ committed = EmptySource
    /\ handlerProvider = "none"
    /\ backup = EmptySource
    /\ pendingBackupRebase = FALSE
    /\ pendingPayloads = << >>
    /\ pendingUpdaters = << >>
    /\ appliedUpdaters = << >>
    /\ outcome = "constructed"
    /\ log = << >>
    /\ callOrder = << >>
    /\ updaterThrew = FALSE
    /\ scenario = [phase |-> "none", u |-> "none", before |-> EmptySource, was |-> << >>]

codeGeneratorVars == << selection, generated >>

contextVars == << documents, compilerThrew, singleRoot >>

viewerVars == << linkedField, transformedField >>

\* No field is being generated.
CodeGeneratorIdle ==
    /\ selection = NoSelection
    /\ generated = NotGenerated

\* No context is in hand.
ContextIdle ==
    /\ documents = EmptyContext
    /\ compilerThrew = FALSE
    /\ singleRoot = NoTransform

\* No linked field is being transformed.
ViewerIdle ==
    /\ linkedField = NoField
    /\ transformedField = NoField

\* The compiler has been given nothing.
CompilerIdle == CodeGeneratorIdle /\ ContextIdle /\ ViewerIdle

\* The arguments written in the order p.
Reordered(args, p) == [i \in 1..Len(args) |-> args[p[i]]]

\* A field of a document, its arguments as written.
CodeGeneratorInit ==
    /\ QueueUnused /\ ContextIdle /\ ViewerIdle
    /\ selection \in [name : FieldNames, args : ArgumentLists]
    /\ generated = NotGenerated

\* generate(): _generateSelection(selection)
GenerateSelection ==
    /\ generated' = GenerateField(selection)
    /\ UNCHANGED << selection, queueVars, contextVars, viewerVars >>

CodeGeneratorNext == GenerateSelection

CodeGeneratorSpec == CodeGeneratorInit /\ [][CodeGeneratorNext]_vars

\* A context to which nothing was added.
ContextInit == QueueUnused /\ CompilerIdle

\* context = context.add(node), or add throws
AddDocument(node) ==
    /\ IF ContextAddAllowed(documents, node)
       THEN documents' = ContextAdd(documents, node) /\ compilerThrew' = FALSE
       ELSE documents' = documents /\ compilerThrew' = TRUE
    /\ UNCHANGED << singleRoot, queueVars, codeGeneratorVars, viewerVars >>

\* context = context.remove(name)
RemoveDocument(name) ==
    /\ documents' = ContextRemove(documents, name)
    /\ compilerThrew' = FALSE
    /\ UNCHANGED << singleRoot, queueVars, codeGeneratorVars, viewerVars >>

\* The documents are added one by one; those with one spread at most are
\* enough for what add and remove look at.
ContextNext ==
    \/ \E node \in Nodes : Len(node.spreads) <= 1 /\ AddDocument(node)
    \/ \E name \in DocumentNames : RemoveDocument(name)

ContextSpec == ContextInit /\ [][ContextNext]_vars

\* The contexts that add calls can build.
Contexts ==
    { context \in [DocumentNames -> Nodes \cup {NoDocument}] :
        \A name \in DocumentNames :
            ContextHas(context, name) => context[name].name = name }

\* A context as the parser built it.
SingleRootInit ==
    /\ QueueUnused /\ CodeGeneratorIdle /\ ViewerIdle
    /\ documents \in Contexts
    /\ compilerThrew = FALSE
    /\ singleRoot = NoTransform

\* RelaySingleRootTransform.transform(context, root), root being a root of
\* the context.
TransformSingleRoot(name) ==
    /\ ContextGet(documents, name).kind = "Root"
    /\ LET r == SingleRootTransform(documents, ContextGet(documents, name))
       IN /\ compilerThrew' = r.threw
          /\ singleRoot' = [root |-> name, context |-> r.context]
    /\ UNCHANGED << documents, queueVars, codeGeneratorVars, viewerVars >>

SingleRootNext == \E name \in DocumentNames : TransformSingleRoot(name)

SingleRootSpec == SingleRootInit /\ [][SingleRootNext]_vars

\* A linked field of a document of the context given to transform.
ViewerInit ==
    /\ QueueUnused /\ CodeGeneratorIdle /\ ContextIdle
    /\ linkedField \in LinkedFields
    /\ transformedField = NoField

\* RelayViewerHandleTransform.transform, at one linked field of a document.
TransformViewerHandle ==
    /\ transformedField' = VisitLinkedField(linkedField, VIEWER_TYPE)
    /\ UNCHANGED << linkedField, queueVars, codeGeneratorVars, contextVars >>

ViewerNext == TransformViewerHandle

ViewerSpec == ViewerInit /\ [][ViewerNext]_vars

(***************************************************************************)
(* The state machine.  outcome is "constructed" after the constructor,     *)
(* "scheduled" after a public method other than run() returned, "rejected" *)
(* after applyUpdate threw, "completed" after run() returned and "aborted" *)
(* after run() threw.                                                      *)
(***************************************************************************)
\* The record sources a store may hold when the queue is constructed.
InitialSources ==
    { EmptySource,
      [EmptySource EXCEPT !["4"] = [RecordCreate EXCEPT !.name = "Zuck"],
                          !["5"] = Tombstone] }

Init ==
    /\ \E src \in InitialSources :
         /\ store = [source |-> src, updated |-> {}, data |-> Lookup(src)]
         /\ committed = src
         /\ handlerProvider \in (IF src = EmptySource THEN {"viewer", "none"}
                                                        ELSE {"viewer", "other"})
    /\ backup = EmptySource
    /\ pendingBackupRebase = FALSE
    /\ pendingPayloads = << >>
    /\ pendingUpdaters = << >>
    /\ appliedUpdaters = << >>
    /\ outcome = "constructed"
    /\ log = << >>
    /\ callOrder = << >>
    /\ updaterThrew = FALSE
    /\ scenario = NoScenario
    /\ CompilerIdle

\* The run() that ended as q threw in an updater of _applyUpdates.
ApplyPassThrew(q) ==
    /\ q.threw
    /\ q.log # << >>
    /\ q.log[Len(q.log)][1] \in {"replay", "apply"}

\* The queue's fields take the values of q.
Becomes(q) ==
    /\ store' = q.store
    /\ backup' = q.backup
    /\ pendingBackupRebase' = q.rebase
    /\ pendingPayloads' = q.payloads
    /\ pendingUpdaters' = q.pending
    /\ appliedUpdaters' = q.applied
    /\ log' = q.log

\* Mutant of ApplyUpdate: the call that throws has dropped the updater.
ApplyUpdateRejectDrops(u) ==
    LET allowed == ApplyUpdateAllowed(Queue, u)
    IN /\ Becomes(IF allowed THEN ApplyUpdateQueue(Queue, u)
                              ELSE RevertUpdateQueue(Queue, u))
       /\ outcome' = IF allowed THEN "scheduled" ELSE "rejected"
       /\ callOrder' = IF allowed THEN Append(callOrder, u) ELSE callOrder
       /\ scenario' = ScenarioApply(u, allowed)
       /\ UNCHANGED << updaterThrew, handlerProvider, committed, compilerVars >>

ApplyUpdate(u) ==
    LET allowed == ApplyUpdateAllowed(Queue, u)
    IN /\ Becomes(IF allowed THEN ApplyUpdateQueue(Queue, u) ELSE Queue)
       /\ outcome' = IF allowed THEN "scheduled" ELSE "rejected"
       /\ callOrder' = IF allowed THEN Append(callOrder, u) ELSE callOrder
       /\ scenario' = ScenarioApply(u, allowed)
       /\ UNCHANGED << updaterThrew, handlerProvider, committed, compilerVars >>

RevertUpdate(u) ==
    /\ Becomes(RevertUpdateQueue(Queue, u))
    /\ outcome' = "scheduled"
    /\ callOrder' = SelectSeq(callOrder, LAMBDA v : v # u)
    /\ scenario' = ScenarioRevert(u)
    /\ UNCHANGED << updaterThrew, handlerProvider, committed, compilerVars >>

RevertAll ==
    /\ Becomes(RevertAllQueue(Queue))
    /\ outcome' = "scheduled"
    /\ callOrder' = << >>
    /\ scenario' = ScenarioRevertAll
    /\ UNCHANGED << updaterThrew, handlerProvider, committed, compilerVars >>

CommitPayload(p) ==
    /\ Len(pendingPayloads) < MaxPayloads
    /\ Becomes(CommitPayloadQueue(Queue, p))
    /\ outcome' = "scheduled"
    /\ scenario' = ScenarioCommit
    /\ UNCHANGED << updaterThrew, handlerProvider, committed, callOrder, compilerVars >>

Run ==
    \E q \in {RunQueue(Queue, handlerProvider)} :
       /\ \A id \in DataIDs : q.store.source[id].count <= MaxCount
       /\ Becomes(q)
       /\ outcome' = IF q.threw THEN "aborted" ELSE "completed"
       /\ committed' = IF q.threw /\ ~ApplyPassThrew(q) THEN committed
                       ELSE ReferenceCommitAll(committed, pendingPayloads, 1)
       /\ updaterThrew' = (updaterThrew \/ ApplyPassThrew(q))
       /\ scenario' = ScenarioRun(q.threw)
       /\ UNCHANGED << handlerProvider, callOrder, compilerVars >>

Next ==
    \/ \E u \in Updaters : ApplyUpdate(u)
    \/ \E u \in Updaters : RevertUpdate(u)
    \/ RevertAll
    \/ \E p \in PayloadNames : CommitPayload(p)
    \/ Run

Spec == Init /\ [][Next]_vars

\* The queue of a host whose callbacks can throw: the updater UT, the updater
\* of the payload PT and the "viewer" handler of the provider "faulty".
FaultInit ==
    /\ \E src \in InitialSources :
         /\ store = [source |-> src, updated |-> {}, data |-> Lookup(src)]
         /\ committed = src
    /\ handlerProvider \in FaultProviders
    /\ backup = EmptySource
    /\ pendingBackupRebase = FALSE
    /\ pendingPayloads = << >>
    /\ pendingUpdaters = << >>
    /\ appliedUpdaters = << >>
    /\ outcome = "constructed"
    /\ log = << >>
    /\ callOrder = << >>
    /\ updaterThrew = FALSE
    /\ scenario = NoScenario
    /\ CompilerIdle

FaultNext ==
    \/ \E u \in FaultUpdaters : ApplyUpdate(u)
    \/ \E u \in FaultUpdaters : RevertUpdate(u)
    \/ RevertAll
    \/ \E p \in FaultPayloadNames : CommitPayload(p)
    \/ Run

FaultSpec == FaultInit /\ [][FaultNext]_vars

(***************************************************************************)
(* Properties.                                                             *)
(***************************************************************************)
\* The last run() did this, at some point.
Did(kind, what) == \E i \in 1..Len(log) : log[i] = << kind, what >>

\* C1: after any sequence of calls followed by a completed run(), the
\* store's record source is the reference state: every payload enqueued so
\* far committed in enqueue order with no optimistic updater applied, then
\* the updaters of appliedUpdaters applied in their application order.
C1_StoreIsReference ==
    outcome = "completed" =>
        store.source = ReferenceApply(committed, appliedUpdaters, 1)

\* A completed run() that restored the backup, committed a payload with a
\* handler and an updater and replayed two applied updaters.
C1_Witness ==
    /\ outcome = "completed"
    /\ Did("publish", "backup") /\ Did("publish", "PB") /\ Did("publish", "sink")
    /\ Len(appliedUpdaters) >= 2
    /\ \A i \in 1..Len(appliedUpdaters) : Did("replay", appliedUpdaters[i])
    /\ store.source # committed

\* C2: for any updater U applied on a queue with nothing else queued,
\* applyUpdate(U); run(); revertUpdate(U); run() leaves every record of the
\* store as it was before applyUpdate(U).
C2_ApplyRunRevertRun ==
    scenario.phase = "arvr" => store.source = scenario.before

\* U1 created record "4", which did not exist before, and it is gone again.
C2_Witness ==
    /\ scenario.phase = "arvr"
    /\ scenario.u = "U1"
    /\ ~Has(scenario.before, "4")
    /\ Did("publish", "backup")

\* C3: applyUpdate(U); revertUpdate(U); run() with nothing else queued
\* leaves the store's record source as it was before applyUpdate(U).
C3_ApplyRevertRun ==
    scenario.phase = "avr" => store.source = scenario.before

C3_Witness ==
    /\ scenario.phase = "avr"
    /\ scenario.u \notin Range(appliedUpdaters)
    /\ Len(appliedUpdaters) > 0

\* The updaters that are pending or applied.
Active == Range(pendingUpdaters) \cup Range(appliedUpdaters)

\* The step is a call of run(); of a method that only schedules.
RunStep == outcome' \in {"completed", "aborted"} /\ Run

ScheduleStep == outcome' \in {"scheduled", "rejected"}

\* C4: applyUpdate(U) throws exactly when U is pending or applied; run()
\* keeps every pending or applied updater pending or applied, so a second
\* applyUpdate(U) fails with or without a run() in between; after
\* revertUpdate(U) or revertAll() U is neither, so applyUpdate(U) succeeds.
C4_ApplyUpdateFailsIffActive ==
    [][ /\ \A u \in Updaters :
             (ScheduleStep /\ ApplyUpdate(u)) =>
                 /\ (outcome' = "rejected") <=> (u \in Active)
                 /\ outcome' = "scheduled" => u \in Active'
        /\ RunStep => Active' = Active
        /\ \A u \in Updaters :
             (ScheduleStep /\ RevertUpdate(u)) => u \notin Active'
        /\ (ScheduleStep /\ RevertAll) => Active' = {}
      ]_vars

\* applyUpdate threw for an updater that a run() had applied before.
C4_Witness ==
    /\ outcome = "rejected"
    /\ pendingUpdaters = << >>
    /\ Len(appliedUpdaters) > 0

\* The applied updaters that write "4".name, in application order.
NameWriters == SelectSeq(appliedUpdaters, LAMBDA u : u \in {"U1", "U2"})

\* C5: U1 and U2 both write "4".name; when U2 was applied after U1 the field
\* holds U2's value after run(), and after revertUpdate(U1) and another run()
\* it still does: that run does not invoke U1.
C5_LaterUpdaterWins ==
    (outcome = "completed" /\ NameWriters # << >>
       /\ NameWriters[Len(NameWriters)] = "U2") =>
        /\ store.source["4"].name = "B"
        /\ "U1" \notin Range(appliedUpdaters) =>
               ~Did("replay", "U1") /\ ~Did("apply", "U1")

\* U1 and U2 were applied in that order, U1 was reverted, and the run()
\* that followed restored the backup and replayed U2 only.
C5_Witness ==
    /\ outcome = "completed"
    /\ scenario.phase \in {"vr", "arvr"}
    /\ scenario.u = "U1"
    /\ scenario.was = << "U1", "U2" >>
    /\ Did("publish", "backup") /\ Did("replay", "U2")
    /\ store.source["4"].name = "B"

\* The updaters the last run() invoked as kind ("replay" or "apply"), in order.
Invoked(kind) ==
    LET sel == SelectSeq(log, LAMBDA e : e[1] = kind)
    IN [i \in 1..Len(sel) |-> sel[i][2]]

\* C6: a run() that rebases invokes the already applied updaters in the order
\* of their applyUpdate calls, also after one of them was reverted.
C6_ReplayInApplicationOrder ==
    outcome = "completed" =>
        /\ Len(Invoked("replay")) <= Len(callOrder)
        /\ Invoked("replay") = SubSeq(callOrder, 1, Len(Invoked("replay")))
        /\ Len(Invoked("replay")) > 0 =>
               Invoked("replay") \o Invoked("apply") = callOrder

\* Three updaters were applied, the middle one was reverted, and the run()
\* replayed the first and the last in that order.
C6_Witness ==
    /\ outcome = "completed"
    /\ scenario.phase \in {"vr", "vcr", "arvr"}
    /\ Len(scenario.was) = 3
    /\ scenario.was[2] = scenario.u
    /\ Invoked("replay") = << scenario.was[1], scenario.was[3] >>

\* Every publish of a payload by the last run() precedes every invocation
\* of an optimistic updater.
PayloadsBeforeUpdaters ==
    \A i, j \in 1..Len(log) :
        (log[i][1] = "publish" /\ log[i][2] \in PayloadNames
           /\ log[j][1] \in {"replay", "apply"}) => i < j

\* C7: with an updater applied that writes "4".name, a payload whose source
\* writes "Official" to "4".name followed by run() leaves the updater's value
\* in the field: the payload is committed first, the updater replayed on top.
C7_OptimisticOverServer ==
    (outcome = "completed" /\ Did("publish", "PA") /\ NameWriters # << >>) =>
        /\ store.source["4"].name =
               (IF NameWriters[Len(NameWriters)] = "U1" THEN "A" ELSE "B")
        /\ committed["4"].name = "Official"
        /\ PayloadsBeforeUpdaters

C7_Witness ==
    /\ outcome = "completed"
    /\ Did("publish", "PA") /\ Did("replay", "U1")
    /\ store.source["4"].name = "A"
    /\ committed["4"].name = "Official"

\* A pending payload has a field payload for whose handle there is no handler.
MissingHandler ==
    \E i \in 1..Len(pendingPayloads) :
        \E j \in 1..Len(PayloadFields(pendingPayloads[i].name)) :
            ~HandlerProvided(handlerProvider,
                             PayloadFields(pendingPayloads[i].name)[j].handle)

\* C8: run() throws whenever a pending payload has a field payload whose
\* handle has no handler, be it that the provider returns none for the
\* handle or that the queue has no provider.
C8_MissingHandlerThrows ==
    [][ (MissingHandler /\ RunStep) => outcome' = "aborted" ]_vars

\* run() threw with a provider that does not know the handle.
C8_Witness ==
    /\ outcome = "aborted"
    /\ handlerProvider = "other"
    /\ MissingHandler

\* How many times the last run() did this.
Count(kind, what) == Cardinality({i \in 1..Len(log) : log[i] = << kind, what >>})

\* C9: every run() that completes calls store.notify() exactly once.
C9_NotifyOnce ==
    outcome = "completed" => Count("notify", "store") = 1

\* A run() that published the backup, two payloads and the updaters' sink.
C9_Witness ==
    /\ outcome = "completed"
    /\ Did("publish", "backup") /\ Did("publish", "PA") /\ Did("publish", "PB")
    /\ Did("publish", "sink")
    /\ Count("notify", "store") = 1

\* C10: in a run() store.notify() comes after every store.publish(), and the
\* subscriber's callback is called by notify() only; what the subscriber is
\* called with is the state with every payload committed and every applied
\* updater replayed.
C10_NotifyAfterPublishes ==
    /\ \A i, j \in 1..Len(log) :
           /\ (log[i][1] = "publish" /\ log[j][1] = "notify") => i < j
           /\ (log[i][1] = "callback") => (i > 1 /\ log[i - 1][1] = "notify")
    /\ Did("callback", "subscriber") =>
           store.data = Lookup(ReferenceApply(committed, appliedUpdaters, 1))

\* An applied updater was reverted, a payload was committed with it, and the
\* subscriber was called once the run() had published backup, payload, sink.
C10_Witness ==
    /\ scenario.phase = "vcr"
    /\ Did("publish", "backup") /\ Did("publish", "PA") /\ Did("publish", "sink")
    /\ Did("callback", "subscriber")
    /\ store.data.name \in {"A", "B"}

\* C11: a run() called when no payload is pending, no updater is pending and
\* no rebase is flagged completes, calls store.notify() and nothing else:
\* no store.publish(), and no record of the store (nor of the backup)
\* changes.
C11_IdleRunOnlyNotifies ==
    [][ (Idle /\ RunStep) =>
            /\ outcome' = "completed"
            /\ log' = << << "notify", "store" >> >>
            /\ store'.source = store.source
            /\ backup' = backup
      ]_vars

\* A run() that only notified although updaters are applied and their
\* effect is in the store: nothing was pending and no rebase was flagged.
C11_Witness ==
    /\ outcome = "completed"
    /\ log = << << "notify", "store" >> >>
    /\ Len(appliedUpdaters) > 0
    /\ store.source # committed

\* C12: applyUpdate, revertUpdate, revertAll and commitPayload only schedule:
\* none changes the store (its record source included) or the backup, none
\* calls publish, notify, an updater or a handler; the store changes in
\* run() only.
C12_SchedulingLeavesStore ==
    [][ /\ ScheduleStep => (store' = store /\ backup' = backup /\ log' = << >>)
        /\ store' # store => outcome' \in {"completed", "aborted"}
      ]_vars

\* An applied updater was reverted and a payload committed: the store still
\* holds the reverted updater's effect.
C12_Witness ==
    /\ outcome = "scheduled"
    /\ scenario.phase = "vc"
    /\ scenario.u \notin Range(appliedUpdaters)
    /\ Len(pendingPayloads) > 0
    /\ log = << >>
    /\ store.source = ReferenceApply(committed, scenario.was, 1)
    /\ store.source # ReferenceApply(committed, appliedUpdaters, 1)

\* C13: after revertAll() and a completed run(), with or without payloads
\* committed in between, pendingUpdaters and appliedUpdaters are empty and
\* the store's record source is the one the committed payloads alone
\* produce, however many updaters were applied.
C13_RevertAllThenRun ==
    scenario.phase = "xr" =>
        /\ pendingUpdaters = << >>
        /\ appliedUpdaters = << >>
        /\ backup = EmptySource
        /\ store.source = committed

\* Three updaters were applied when revertAll() was called; the run()
\* restored the backup and committed a payload.
C13_Witness ==
    /\ scenario.phase = "xr"
    /\ Len(scenario.was) = 3
    /\ Did("publish", "backup") /\ Did("publish", "PB")
    /\ ~Did("publish", "sink")
    /\ store.source = committed

\* The step is a run() that completes with payloads pending.
CommitStep == pendingPayloads # << >> /\ outcome' = "completed" /\ Run

Names(payloads) == [i \in 1..Len(payloads) |-> payloads[i].name]

\* The calls that committing the payloads from the i-th on makes: for each
\* payload its handlers, its updater, then the publish of its source.
RECURSIVE ExpectedPayloadCalls(_, _)
ExpectedPayloadCalls(payloads, i) ==
    IF i > Len(payloads) THEN << >>
    ELSE LET p  == payloads[i].name
             fp == PayloadFields(p)
         IN [j \in 1..Len(fp) |-> << "handler", fp[j].handle >>]
              \o (IF PayloadHasUpdater(p) THEN << << "updater", p >> >> ELSE << >>)
              \o << << "publish", p >> >>
              \o ExpectedPayloadCalls(payloads, i + 1)

\* The calls of handlers and payload updaters and the publishes of payloads
\* among the calls l.
PayloadCalls(l) ==
    SelectSeq(l, LAMBDA e : \/ e[1] \in {"handler", "updater"}
                            \/ e[1] = "publish" /\ e[2] \in PayloadNames)

\* C15: a completed run() processes the pending payloads in commitPayload
\* order and publishes each source before it processes the next payload;
\* with PA committed before PB, PB's handler reads the name PA wrote to "4"
\* and PB's updater finds the record "4" that PA published.
C15_PayloadsInCommitOrder ==
    [][ CommitStep =>
            /\ PayloadCalls(log') = ExpectedPayloadCalls(pendingPayloads, 1)
            /\ Names(pendingPayloads) = << "PA", "PB" >> =>
                   /\ store'.source["4"].count = 0
                   /\ "U2" \notin Range(appliedUpdaters') =>
                          store'.source["5"].name = "Official"
      ]_vars

\* PA was published before PB's handler ran, and the handler copied PA's
\* name of "4" into "5".
C15_Witness ==
    /\ outcome = "completed"
    /\ \E i, j \in 1..Len(log) :
           i < j /\ log[i] = << "publish", "PA" >> /\ log[j] = << "handler", "viewer" >>
    /\ store.source["5"].name = "Official"
    /\ store.source["4"].count = 0

\* C16: for any updater U and any record source the store holds, publishing
\* the backup captured while U is applied restores every record U created,
\* modified or deleted to its value before U, non-existence included, and
\* the records without backup entry were not changed by U; the same for the
\* backup the queue holds once applyUpdate(U); run() applied U alone.
C16_BackupRestores ==
    /\ \A u \in Updaters :
           LET m     == StoreUpdater(u, Mutator(store.source, EmptySource, EmptySource, TRUE))
               after == MergeSource(store.source, m.sink)
           IN /\ MergeSource(after, m.backup) = store.source
              /\ \A id \in DataIDs :
                     /\ ~Has(m.backup, id) => after[id] = store.source[id]
                     /\ Has(m.sink, id) => Has(m.backup, id)
    /\ (scenario.phase = "ar" /\ appliedUpdaters = << scenario.u >>) =>
           /\ MergeSource(store.source, backup) = scenario.before
           /\ \A id \in DataIDs :
                  ~Has(backup, id) => store.source[id] = scenario.before[id]

\* U2 alone was applied to a store without record "4" and with a record
\* "5": it created "4", set its name and deleted "5"; the backup holds both.
C16_Witness ==
    /\ scenario.phase = "ar" /\ scenario.u = "U2"
    /\ appliedUpdaters = << "U2" >>
    /\ ~Has(scenario.before, "4")
    /\ scenario.before["5"].st = EXISTENT
    /\ store.source["4"].name = "B"
    /\ store.source["5"].st = NONEXISTENT
    /\ Has(backup, "4") /\ Has(backup, "5")
    /\ MergeSource(store.source, backup) = scenario.before

\* What the backup holds for an id whose value was record.
AsBackup(record) == IF record.st = NOENTRY THEN UnknownEntry ELSE record

\* C17: an entry of the backup is written once: while the backup holds an
\* entry for an id, no call changes the entry, except the run() that
\* publishes and replaces the backup for a rebase; the entry is the value the
\* id has with no optimistic write, that is with the payloads alone.
C17_BackupFirstTouchWins ==
    [][ \A id \in DataIDs :
          /\ (Has(backup, id)
                 /\ ~(pendingBackupRebase /\ outcome' \in {"completed", "aborted"}))
              => backup'[id] = backup[id]
          /\ Has(backup', id) => backup'[id] = AsBackup(committed'[id])
      ]_vars

\* U1 created "4" and set its name in one run(); U2 wrote "4" again in a
\* later run() without rebase: the entry still says "4" did not exist.
C17_Witness ==
    /\ outcome = "completed"
    /\ appliedUpdaters = << "U1", "U2" >>
    /\ Invoked("replay") = << >> /\ Invoked("apply") = << "U2" >>
    /\ backup["4"] = UnknownEntry
    /\ store.source["4"].name = "B"

\* The sinks a mutator over the store's source is asked about: none of its
\* own, one with a tombstone, the sources of the pending payloads.
ShadowSinks ==
    {EmptySource}
      \cup {[EmptySource EXCEPT ![id] = Tombstone] : id \in DataIDs}
      \cup {pendingPayloads[i].source : i \in 1..Len(pendingPayloads)}

\* x comes before y in seq.
Before(x, y, seq) ==
    \E i, j \in 1..Len(seq) : i < j /\ seq[i] = x /\ seq[j] = y

\* C18: a mutator's get(id) is the sink's entry whenever the sink has one, a
\* tombstone over an existing base record included, and the base's entry
\* otherwise.  In the queue: U3 after U2 finds "5" deleted in the sink and
\* creates it anew, whatever the store holds; U3 without U2 increments the
\* store's record; PB's handler finds "5" in the payload's source, whatever
\* the store holds, and "4" in the store.
C18_MutatorGetSinkFirst ==
    /\ \A id \in DataIDs : \A sink \in ShadowSinks :
           MutatorGet(Mutator(store.source, sink, EmptySource, FALSE), id)
             = IF sink[id].st = NOENTRY THEN store.source[id] ELSE sink[id]
    /\ (outcome = "completed" /\ Before("U2", "U3", appliedUpdaters)) =>
           store.source["5"] = [RecordCreate EXCEPT !.count = 1]
    /\ (outcome = "completed" /\ "U3" \in Range(appliedUpdaters)
          /\ "U2" \notin Range(appliedUpdaters) /\ committed["5"].st = EXISTENT) =>
           store.source["5"] =
               [committed["5"] EXCEPT !.count = IF @ = AbsentCount THEN 1 ELSE @ + 1]
    /\ (outcome = "completed"
          /\ PayloadCalls(log) = ExpectedPayloadCalls(<< [name |-> "PB"] >>, 1)
          /\ committed["4"].st = EXISTENT
          /\ Range(appliedUpdaters) \cap {"U2", "U3"} = {}) =>
           store.source["5"] = [RecordCreate EXCEPT !.name  = committed["4"].name,
                                                    !.count = 0]

\* One run() invoked U2 and then U3 over a store whose record "5" exists
\* and has a name: U3 read the tombstone U2 left in the sink.
C18_Witness ==
    /\ outcome = "completed"
    /\ Before("U2", "U3", Invoked("replay") \o Invoked("apply"))
    /\ committed["5"].st = EXISTENT
    /\ committed["5"].name # AbsentName
    /\ store.source["5"] = [RecordCreate EXCEPT !.count = 1]

\* The calls that run a callback of the host.
CallbackKinds == {"handler", "updater", "replay", "apply"}

\* C19: the base of a transaction is never mutated: in a run() no updater,
\* payload updater or handler changes the base of the mutator it is given,
\* over the store's source; the store's record source changes only if
\* store.publish() is called, and every callback that ran is followed by the
\* publish that carries its writes to the store.
C19_BaseNeverMutated ==
    [][ outcome' \in {"completed", "aborted"} =>
          /\ LET m0 == Mutator(store.source, EmptySource, backup, TRUE)
             IN \A u \in Updaters : StoreUpdater(u, m0).base = store.source
          /\ \A sink \in ShadowSinks : \A id \in DataIDs :
                LET m0 == Mutator(store.source, sink, EmptySource, FALSE)
                IN /\ HandlerUpdate(m0, FieldPayload(id, "viewer")).base = store.source
                   /\ SelectorStoreUpdater(m0).base = store.source
          /\ store'.source # store.source =>
                \E i \in 1..Len(log') : log'[i][1] = "publish"
          /\ \A i \in 1..Len(log') :
                log'[i][1] \in CallbackKinds =>
                    \E j \in (i + 1)..Len(log') : log'[j][1] = "publish"
      ]_vars

\* A run() ran a handler, a payload updater and optimistic updaters, and
\* their writes are in the store after the publishes.
C19_Witness ==
    /\ outcome = "completed"
    /\ Did("handler", "viewer") /\ Did("updater", "PB") /\ Did("publish", "PB")
    /\ Did("replay", "U1") /\ Did("apply", "U2") /\ Did("publish", "sink")
    /\ store.source["4"] = [RecordCreate EXCEPT !.name = "B", !.count = 0]
    /\ store.source["5"].st = NONEXISTENT

\* The record sources of the state.
Sources ==
    {store.source, backup, committed}
      \cup {pendingPayloads[i].source : i \in 1..Len(pendingPayloads)}

\* C20: the status of an id in a record source is one of EXISTENT,
\* NONEXISTENT, UNKNOWN; an id never set is UNKNOWN, set makes it EXISTENT,
\* delete NONEXISTENT (an entry still), remove UNKNOWN again (no entry), and
\* none changes the status of another id.  In the store: after U2 alone
\* "4" is EXISTENT and "5" NONEXISTENT, and once U2 is reverted every id has
\* the status it had before.
C20_RecordStatus ==
    /\ \A id \in DataIDs : GetStatus(EmptySource, id) = UNKNOWN
    /\ \A s \in Sources : \A id \in DataIDs :
          /\ GetStatus(s, id) \in {EXISTENT, NONEXISTENT, UNKNOWN}
          /\ GetStatus(SourceSet(s, id, RecordCreate), id) = EXISTENT
          /\ GetStatus(SourceDelete(s, id), id) = NONEXISTENT
          /\ Has(SourceDelete(s, id), id)
          /\ GetStatus(SourceRemove(s, id), id) = UNKNOWN
          /\ ~Has(SourceRemove(s, id), id)
          /\ \A other \in DataIDs \ {id} :
                /\ GetStatus(SourceSet(s, id, RecordCreate), other) = GetStatus(s, other)
                /\ GetStatus(SourceDelete(s, id), other) = GetStatus(s, other)
                /\ GetStatus(SourceRemove(s, id), other) = GetStatus(s, other)
    /\ (scenario.phase = "ar" /\ scenario.u = "U2") =>
          /\ GetStatus(store.source, "4") = EXISTENT
          /\ GetStatus(store.source, "5") = NONEXISTENT
    /\ scenario.phase = "arvr" =>
          \A id \in DataIDs :
              GetStatus(store.source, id) = GetStatus(scenario.before, id)

\* U2 set "4" and deleted "5" in an empty store, and the publish of the
\* backup removed both again.
C20_Witness ==
    /\ scenario.phase = "arvr" /\ scenario.u = "U2"
    /\ scenario.before = EmptySource
    /\ Did("publish", "backup")
    /\ \A id \in DataIDs :
          GetStatus(store.source, id) = UNKNOWN /\ ~Has(store.source, id)

\* Some call of the kind is among the calls l.
Called(l, kind) == \E i \in 1..Len(l) : l[i][1] = kind

\* C21: store.publish(source) updates the store's record source at once and
\* calls no subscriber: publishing any source of the state leaves the
\* snapshot's data alone; a run() that throws after a publish leaves the
\* published records in the store, marked as changed, and the subscriber
\* uncalled with its data as before; a callback is only ever the call
\* right after notify().
C21_PublishCallsNoSubscriber ==
    [][ outcome' \in {"completed", "aborted"} =>
          /\ \A source \in Sources :
                /\ StorePublish(store, source).data = store.data
                /\ StorePublish(store, source).source = MergeSource(store.source, source)
          /\ outcome' = "aborted" =>
                /\ ~Called(log', "callback") /\ ~Called(log', "notify")
                /\ store'.data = store.data
                /\ {id \in DataIDs : store'.source[id] # store.source[id]}
                      \subseteq store'.updated
          /\ \A i \in 1..Len(log') :
                log'[i][1] = "callback" => (i > 1 /\ log'[i - 1][1] = "notify")
      ]_vars

\* run() published PA and then threw: the store holds PA's record "4", the
\* subscriber, whose snapshot reads "4", was not called.
C21_Witness ==
    /\ outcome = "aborted"
    /\ Did("publish", "PA")
    /\ store.source["4"].name = "Official"
    /\ store.data.name # "Official"
    /\ "4" \in store.updated

\* C22: store.notify() calls the subscriber only if a record of its
\* snapshot's seenRecords was published since the previous notify() and
\* the result read again differs from the snapshot's data: a completed
\* run() calls it exactly when the data of its selector changed, with the
\* new data, and a run() without publish, none being left from a run() that
\* threw, calls nobody.
C22_NotifySelective ==
    [][ outcome' = "completed" =>
          /\ Called(log', "callback") <=>
                (/\ Lookup(store'.source) # store.data
                 /\ Called(log', "publish")
                 /\ \E id \in SeenRecords :
                       id \in store.updated \/ store'.source[id] # store.source[id])
          /\ store'.data = Lookup(store'.source)
          /\ store'.updated = {}
          /\ (~Called(log', "publish") /\ store.updated = {}) =>
                ~Called(log', "callback")
      ]_vars

\* A run() applied U3, which writes "5" only, published the sink and
\* notified: the subscriber, whose snapshot reads "4", was not called.
C22_Witness ==
    /\ outcome = "completed"
    /\ log = << << "apply", "U3" >>, << "publish", "sink" >>, << "notify", "store" >> >>
    /\ store.source["5"].count >= 1
    /\ store.data = Lookup(store.source)

\* C23: the storage key of a field and its generated arguments do not depend
\* on the order in which the field's arguments are written: every
\* permutation of the arguments yields the same generated argument list and
\* the same storage key, which is made of the field's name and its literal
\* arguments in the order of their names.
C23_StorageKeyOrderIndependent ==
    generated.kind # "none" =>
        /\ generated = GenerateField(selection)
        /\ \A p \in Permutations(1..Len(selection.args)) :
               GenerateField([selection EXCEPT !.args = Reordered(@, p)]) = generated
        /\ \A i, j \in 1..Len(generated.args.args) :
               i < j => NameLess(generated.args.args[i].name,
                                 generated.args.args[j].name)
        /\ ~generated.storageKey.isNull =>
               /\ generated.storageKey.key[1] = selection.name
               /\ \A i \in 1..Len(selection.args) :
                      selection.args[i].value.kind = "Literal"

\* A field written with three literal arguments, the names not in order and
\* one of the values null, has its two generated arguments and its storage
\* key in the order of the names.
C23_Witness ==
    /\ generated.kind = "field"
    /\ Len(selection.args) = 3
    /\ NameLess(selection.args[3].name, selection.args[1].name)
    /\ selection.args[2].value.value = NULL
    /\ Len(generated.args.args) = 2
    /\ ~generated.storageKey.isNull
    /\ generated.storageKey.key =
           << selection.name, "{",
              selection.args[3].name, ":", selection.args[3].value.value, ",",
              selection.args[1].name, ":", selection.args[1].value.value, "}" >>

\* C24: add(node) throws exactly when the context holds a document of that
\* name, be it a root or a fragment, and then the context is as it was; an
\* add that returns has put the node under its name and left the others; and
\* after every add and remove each document is held under its own name, so
\* that the names of the documents are pairwise distinct.
C24_AddFailsOnDuplicateName ==
    [][ /\ \A node \in Nodes :
             AddDocument(node) =>
                 /\ compilerThrew' <=> ContextHas(documents, node.name)
                 /\ compilerThrew' => documents' = documents
                 /\ ~compilerThrew' =>
                        /\ ContextGet(documents', node.name) = node
                        /\ \A name \in DocumentNames \ {node.name} :
                               documents'[name] = documents[name]
        /\ compilerThrew' => \E node \in Nodes : AddDocument(node)
        /\ \A name \in ContextNames(documents') : documents'[name].name = name
        /\ Cardinality({documents'[name].name : name \in ContextNames(documents')})
              = Cardinality(ContextNames(documents'))
      ]_vars

\* add threw on a context that holds a root and a fragment.
C24_Witness ==
    /\ compilerThrew
    /\ \E r, f \in ContextNames(documents) :
          documents[r].kind = "Root" /\ documents[f].kind = "Fragment"
    /\ Cardinality(ContextNames(documents)) = 2

\* The names reached from names through chains of fragment spreads.
RECURSIVE SpreadClosure(_, _)
SpreadClosure(context, names) ==
    LET next == names \cup UNION { Range(context[name].spreads) : name \in names }
    IN IF next = names THEN names ELSE SpreadClosure(context, next)

\* C25: transform(context, root) returns, also when fragments spread each
\* other in a cycle; the context it returns holds the root and the documents
\* reached from it through chains of fragment spreads, each as the given
\* context holds it, and no other; these are fragments when the spreads
\* name fragments.  It throws exactly when a spread that is reached names
\* no document of the context.
C25_SingleRootReachable ==
    singleRoot.root # NULL =>
        LET reached == SpreadClosure(documents, {singleRoot.root})
        IN /\ compilerThrew <=> ~(reached \subseteq ContextNames(documents))
           /\ ~compilerThrew =>
                  /\ ContextNames(singleRoot.context) = reached
                  /\ \A name \in reached :
                         singleRoot.context[name] = documents[name]
                  /\ \A name \in DocumentNames \ reached :
                         singleRoot.context[name] = NoDocument
                  /\ (\A name \in reached :
                         \A i \in 1..Len(documents[name].spreads) :
                            documents[documents[name].spreads[i]].kind = "Fragment")
                       => \A name \in reached \ {singleRoot.root} :
                             singleRoot.context[name].kind = "Fragment"

\* The root spreads Bar, Bar spreads itself and Baz, Baz spreads Bar: the
\* transform returned a context with the three.
C25_Witness ==
    /\ singleRoot.root = "Foo"
    /\ ~compilerThrew
    /\ documents["Foo"].spreads = << "Bar" >>
    /\ documents["Bar"] = [name |-> "Bar", kind |-> "Fragment", spreads |-> << "Bar", "Baz" >>]
    /\ documents["Baz"] = [name |-> "Baz", kind |-> "Fragment", spreads |-> << "Bar" >>]
    /\ ContextNames(singleRoot.context) = {"Foo", "Bar", "Baz"}

\* How many times the handle "viewer" is among the handles.
ViewerHandles(handles) ==
    Cardinality({i \in 1..Len(handles.list) : handles.list[i] = VIEWER_HANDLE})

\* What the transform is to make of a linked field's handles.
HandledOnce(before, after) ==
    IF GetRawType(before.type) = VIEWER_TYPE
    THEN ~after.handles.isNull /\ ViewerHandles(after.handles) = 1
    ELSE after.handles = before.handles

\* C26: after the transform every linked field whose raw type is Viewer has
\* the handle "viewer" among its handles exactly once, whatever handles it
\* had, and a linked field of another type has the handles it had.
C26_ViewerHandleExactlyOnce ==
    transformedField # NoField =>
        /\ HandledOnce(linkedField, transformedField)
        /\ Len(transformedField.selections) = Len(linkedField.selections)
        /\ \A k \in 1..Len(linkedField.selections) :
               HandledOnce(linkedField.selections[k], transformedField.selections[k])

\* A field of type Viewer that had the handle "other" alone has been
\* transformed.
C26_Witness ==
    /\ transformedField # NoField
    /\ GetRawType(linkedField.type) = VIEWER_TYPE
    /\ linkedField.handles = [isNull |-> FALSE, list |-> << "other" >>]

\* C27: an applyUpdate(U) that throws, U being pending or applied, leaves
\* pendingUpdaters, appliedUpdaters and their order, pendingPayloads,
\* pendingBackupRebase, the backup and the store as they were.
C27_FailedApplyUpdateChangesNothing ==
    [][ \A u \in Updaters :
          (ScheduleStep /\ ApplyUpdate(u) /\ u \in Active) =>
              /\ outcome' = "rejected"
              /\ UNCHANGED << pendingUpdaters, appliedUpdaters, pendingPayloads,
                              pendingBackupRebase, backup, store >>
      ]_vars

\* applyUpdate threw on a queue with a payload, a pending and an applied
\* updater, a backup and a rebase flagged.
C27_Witness ==
    /\ outcome = "rejected"
    /\ pendingBackupRebase
    /\ pendingPayloads # << >>
    /\ Len(pendingUpdaters) > 0 /\ Len(appliedUpdaters) > 0
    /\ Size(backup) > 0

\* C28: revertUpdate(U) flags a rebase only when U is applied; a U that is
\* only pending leaves pendingUpdaters and no run() invokes it; a U that is
\* neither is left where it is not; in both cases pendingBackupRebase,
\* appliedUpdaters, the backup and pendingPayloads stay as they were.
C28_RevertUpdateFrame ==
    [][ /\ \A u \in Updaters :
             (ScheduleStep /\ RevertUpdate(u)) =>
                 /\ (pendingBackupRebase' /\ ~pendingBackupRebase) =>
                        u \in Range(appliedUpdaters)
                 /\ u \in Range(pendingUpdaters) =>
                        /\ pendingUpdaters' = SetDelete(pendingUpdaters, u)
                        /\ u \notin Active'
                 /\ u \notin Active => pendingUpdaters' = pendingUpdaters
                 /\ u \notin Range(appliedUpdaters) =>
                        UNCHANGED << pendingBackupRebase, appliedUpdaters, backup,
                                     pendingPayloads, store >>
        /\ RunStep =>
               Range(Invoked("apply")') \cup Range(Invoked("replay")') \subseteq Active
        /\ (RunStep /\ scenario.phase = "av") =>
               /\ scenario.u \notin Active
               /\ \A i \in 1..Len(log') : log'[i][2] # scenario.u
      ]_vars

\* A pending updater was dropped on a queue that holds applied updaters and
\* their backup, and no rebase is flagged.
C28_Witness ==
    /\ scenario.phase = "av"
    /\ outcome = "scheduled"
    /\ ~pendingBackupRebase
    /\ Len(appliedUpdaters) > 0
    /\ Size(backup) > 0

\* No element of the sequence occurs twice.
NoDuplicates(seq) == \A i, j \in 1..Len(seq) : seq[i] = seq[j] => i = j

\* C29: no updater is both pending and applied, and none occurs twice among
\* the pending or among the applied updaters.
C29_PendingAppliedDisjoint ==
    /\ Range(pendingUpdaters) \cap Range(appliedUpdaters) = {}
    /\ NoDuplicates(pendingUpdaters)
    /\ NoDuplicates(appliedUpdaters)

\* Two updaters are applied and a third is pending.
C29_Witness ==
    /\ outcome = "scheduled"
    /\ Len(appliedUpdaters) = 2
    /\ Len(pendingUpdaters) = 1
    /\ callOrder = appliedUpdaters \o pendingUpdaters

\* C30: a run() that returns invokes the updaters that were pending once
\* each, in applyUpdate order and after the replayed ones, moves them to the
\* end of appliedUpdaters and publishes their writes in one store.publish of
\* one sink.
C30_PendingUpdatersApplied ==
    [][ (outcome' = "completed" /\ pendingUpdaters # << >>) =>
            /\ Invoked("apply")' = pendingUpdaters
            /\ pendingUpdaters' = << >>
            /\ appliedUpdaters' = appliedUpdaters \o pendingUpdaters
            /\ Count("publish", "sink")' = 1
            /\ \A i, j \in 1..Len(log') :
                   /\ (log'[i][1] = "replay" /\ log'[j][1] = "apply") => i < j
                   /\ (log'[i][1] \in {"replay", "apply"}
                         /\ log'[j] = << "publish", "sink" >>) => i < j
            /\ store'.source =
                   ReferenceApply(committed', appliedUpdaters \o pendingUpdaters, 1)
      ]_vars

\* A run() replayed an applied updater and then applied two pending ones.
C30_Witness ==
    /\ outcome = "completed"
    /\ Len(Invoked("replay")) >= 1
    /\ Len(Invoked("apply")) = 2
    /\ Count("publish", "sink") = 1

\* The calls a run() makes for payload p, the publish of its source last.
PayloadBlock(p) ==
    [j \in 1..Len(PayloadFields(p)) |-> << "handler", PayloadFields(p)[j].handle >>]
      \o (IF PayloadHasUpdater(p) THEN << << "updater", p >> >> ELSE << >>)
      \o << << "publish", p >> >>

\* C31: for each payload a run() calls the handler of every field payload in
\* list order, then the payload's updater if it has one, and only then
\* publishes the payload's source: every publish of a payload ends the block
\* of that payload's calls, no handler or updater is called outside such a
\* block, and what a run() that commits PB last with no optimistic updater
\* leaves in the store holds the handler's write to "5" and the updater's
\* write to "4".
C31_HandlersUpdaterThenPublish ==
    [][ CommitStep =>
            /\ \A k \in 1..Len(log') :
                   (log'[k][1] = "publish" /\ log'[k][2] \in PayloadNames) =>
                       LET block == PayloadBlock(log'[k][2])
                       IN /\ k >= Len(block)
                          /\ SubSeq(log', k + 1 - Len(block), k) = block
            /\ Len(PayloadCalls(log')) =
                   Len(ExpectedPayloadCalls(pendingPayloads, 1))
            /\ (Active' = {}
                  /\ pendingPayloads[Len(pendingPayloads)].name = "PB") =>
                   /\ Has(store'.source, "5")
                   /\ store'.source["5"].count = 0
                   /\ store'.source["5"].name =
                          (IF Has(store'.source, "4")
                           THEN store'.source["4"].name ELSE AbsentName)
                   /\ Has(store'.source, "4") => store'.source["4"].count = 0
      ]_vars

\* A run() committed PB alone onto a store that held "4": the handler's copy
\* of the name of "4" and the updater's count are in the store.
C31_Witness ==
    /\ outcome = "completed"
    /\ PayloadCalls(log) = PayloadBlock("PB")
    /\ Active = {}
    /\ store.source["5"].name = "Zuck"
    /\ store.source["4"].count = 0

\* The count of "5" after U3 incremented what was committed, once.
IncrementedOnce ==
    IF committed["5"].count = AbsentCount THEN 1 ELSE committed["5"].count + 1

\* C32: a run() started with pendingBackupRebase false invokes no updater of
\* appliedUpdaters again: it invokes the pending updaters only, in order, on
\* top of the store as the applied ones left it, so the increment U3 is in
\* the store exactly once after every completed run() while U3 is applied
\* and no updater that deletes "5" is.
C32_NoReplayWithoutRebase ==
    [][ RunStep =>
            /\ ~pendingBackupRebase =>
                   /\ Invoked("replay")' = << >>
                   /\ Invoked("apply")' = pendingUpdaters
                   /\ store'.source =
                          ReferenceApply(store.source, pendingUpdaters, 1)
                   /\ ("U3" \in Range(appliedUpdaters)
                         /\ "U2" \notin Range(pendingUpdaters)) =>
                          store'.source["5"] = store.source["5"]
            /\ (outcome' = "completed"
                  /\ "U3" \in Range(appliedUpdaters')
                  /\ "U2" \notin Range(appliedUpdaters')) =>
                   store'.source["5"].count = IncrementedOnce'
      ]_vars

\* U3 was applied by an earlier run(); the last run() applied U1 without a
\* rebase and replayed nothing, and the increment is there once.
C32_Witness ==
    /\ outcome = "completed"
    /\ appliedUpdaters = << "U3", "U1" >>
    /\ Invoked("replay") = << >> /\ Invoked("apply") = << "U1" >>
    /\ ~Did("publish", "backup")
    /\ store.source["5"].count = IncrementedOnce

\* C33: run() publishes the backup exactly when a rebase is pending and the
\* backup has entries, as its first call, once, and replaces it by an empty
\* one: after a run() that threw while committing, the backup is empty, and
\* after a run() that returned, every entry of the backup is the value the
\* record had once this run's payloads were committed. A run() with no
\* rebase pending does not publish the backup and keeps each of its entries.
C33_BackupPublishedOnRebase ==
    [][ RunStep =>
            /\ Did("publish", "backup")' <=>
                   (pendingBackupRebase /\ Size(backup) > 0)
            /\ Did("publish", "backup")' =>
                   /\ log'[1] = << "publish", "backup" >>
                   /\ Count("publish", "backup")' = 1
            /\ pendingBackupRebase =>
                   IF outcome' = "aborted"
                   THEN backup' = EmptySource
                   ELSE \A id \in DataIDs :
                            Has(backup', id) => backup'[id] = AsBackup(committed'[id])
            /\ ~pendingBackupRebase =>
                   \A id \in DataIDs : Has(backup, id) => backup'[id] = backup[id]
      ]_vars

\* A run() published a backup that held "4", committed PA over it and
\* replayed U1: the backup holds the name PA wrote, not the one held before.
C33_Witness ==
    /\ outcome = "completed"
    /\ log[1] = << "publish", "backup" >>
    /\ PayloadCalls(log) = PayloadBlock("PA")
    /\ Invoked("replay") = << "U1" >>
    /\ backup["4"].name = "Official"
    /\ store.source["4"].name = "A"

\* C34: whatever was queued before it, a run() that completes leaves no
\* payload pending, no updater pending and no rebase pending; the queue stays
\* so until the next call that schedules.
C34_CompletedRunLeavesNothingPending ==
    /\ [][ (RunStep /\ outcome' = "completed") =>
               /\ pendingPayloads' = << >>
               /\ pendingUpdaters' = << >>
               /\ ~pendingBackupRebase' ]_vars
    /\ [](outcome = "completed" => Idle)

\* A run() completed that had a backup to restore, two payloads and an
\* updater pending: nothing is pending after it.
C34_Witness ==
    /\ outcome = "completed"
    /\ Did("publish", "backup")
    /\ Did("publish", "PA") /\ Did("publish", "PB")
    /\ Invoked("apply") # << >>
    /\ Idle

C36_BackupReflectsCommittedPayloads ==
    /\ scenario.phase = "acr" =>
           \A id \in DataIDs :
               Has(backup, id) => backup[id] = AsBackup(committed[id])
    /\ scenario.phase = "acrvr" =>
           /\ store.source = ReferenceApply(committed, appliedUpdaters, 1)
           /\ appliedUpdaters = << >> =>
                  /\ store.source = committed
                  /\ backup = EmptySource

\* U1 was applied to a store whose "4" was named "Zuck", PA was committed and
\* run() completed; U1 was reverted and run() completed: "4" has the name PA
\* gave it.
C36_Witness ==
    /\ scenario.phase = "acrvr" /\ scenario.u = "U1"
    /\ outcome = "completed"
    /\ appliedUpdaters = << >>
    /\ scenario.before["4"].name = "Zuck"
    /\ committed["4"].name = "Official"
    /\ store.source["4"].name = "Official"

\* The queue in a run(), when the first k payloads have been processed.
AfterPayloads(k) ==
    CommitFrom([RestoreBackup(Queue) EXCEPT !.payloads = SubSeq(@, 1, k)],
               1, handlerProvider)

\* C37: in a run() with payloads pending the rebase is flagged, and, with
\* the provider under which handlers and updaters are invoked, the source
\* that the mutator of each payload reads, for its handlers and its updater,
\* is the source as the payloads alone made it, the earlier payloads of this
\* run() included, with no write of an optimistic updater; so the name the
\* "viewer" handler copies is never one an optimistic updater gave.
C37_PayloadsReadNoOptimisticState ==
    [][ (pendingPayloads # << >> /\ RunStep) =>
            /\ pendingBackupRebase
            /\ handlerProvider = "viewer" =>
                   \A k \in 0..(Len(pendingPayloads) - 1) :
                       /\ ~AfterPayloads(k).threw
                       /\ AfterPayloads(k).store.source =
                              ReferenceCommitAll(committed, SubSeq(pendingPayloads, 1, k), 1)
            /\ (outcome' = "completed" /\ Did("handler", "viewer")'
                  /\ store'.source["5"].st = EXISTENT) =>
                   store'.source["5"].name \in {AbsentName, "Zuck", "Official"}
      ]_vars

\* U1 is applied and named "4" before the run(); the run() restored the
\* backup, committed PB, whose handler copied the name "4" had without U1,
\* and replayed U1.
C37_Witness ==
    /\ outcome = "completed"
    /\ log[1] = << "publish", "backup" >>
    /\ Did("handler", "viewer") /\ Did("replay", "U1")
    /\ store.source["4"].name = "A"
    /\ store.source["5"].name = "Zuck"

\* The last call was a run() that threw while it committed the payloads.
AbortedInCommit ==
    /\ outcome = "aborted"
    /\ log = << >> \/ log[Len(log)][1] \notin {"replay", "apply"}

\* C38: a run() that throws while it commits the payloads, for a missing
\* handler, a handler that throws or a payload updater that throws, has
\* published the backup if there was one to restore and the payloads before
\* the one that failed, and the store keeps them: its source is the source
\* with the backup restored and these payloads committed. No updater was
\* replayed or applied, the two sets of updaters are as they were, notify()
\* was not called and the snapshot data are as they were.
C38_AbortedCommitLeavesPartialStore ==
    [][ (RunStep /\ AbortedInCommit') =>
            LET k        == Len(SelectSeq(Invoked("publish")',
                                          LAMBDA w : w \in FaultPayloadNames))
                restored == IF Size(backup) > 0
                            THEN MergeSource(store.source, backup)
                            ELSE store.source
            IN /\ k < Len(pendingPayloads)
               /\ Did("publish", "backup")' <=> Size(backup) > 0
               /\ store'.source =
                      ReferenceCommitAll(restored, SubSeq(pendingPayloads, 1, k), 1)
               /\ backup' = EmptySource
               /\ Invoked("replay")' = << >> /\ Invoked("apply")' = << >>
               /\ appliedUpdaters' = appliedUpdaters
               /\ pendingUpdaters' = pendingUpdaters
               /\ ~Called(log', "notify")
               /\ store'.data = store.data
      ]_vars

\* U1 was applied; a run() restored the backup, published PB and threw in
\* the updater of PT: the store has what PB wrote and not what U1 wrote, U1
\* is still applied and the subscriber's data are those from before.
C38_Witness ==
    /\ Len(log) >= 3
    /\ AbortedInCommit
    /\ log[1] = << "publish", "backup" >>
    /\ Did("publish", "PB")
    /\ log[Len(log)] = << "updater", "PT" >>
    /\ appliedUpdaters = << "U1" >>
    /\ store.source["4"].name = "Zuck"
    /\ store.source["5"].name = "Zuck"
    /\ store.data # Lookup(store.source)

\* C39: a run() that throws for a missing handler leaves pendingPayloads as
\* it was, the payloads it published included, and the rebase flagged; what
\* it did was to process the payloads from the first up to the one that
\* failed. The handler stays missing whatever is called next, and a run()
\* right after makes the same calls for the payloads again, leaves the same
\* store and throws again.
C39_AbortedCommitKeepsPayloads ==
    /\ [][ (RunStep /\ outcome' = "aborted") =>
               LET calls == PayloadCalls(log')
                   all   == ExpectedPayloadCalls(pendingPayloads, 1)
               IN /\ pendingPayloads # << >>
                  /\ pendingPayloads' = pendingPayloads
                  /\ pendingBackupRebase /\ pendingBackupRebase'
                  /\ Len(calls) < Len(all)
                  /\ calls = SubSeq(all, 1, Len(calls))
                  /\ MissingHandler'
                  /\ outcome = "aborted" =>
                         /\ log' = PayloadCalls(log)
                         /\ store'.source = store.source ]_vars
    /\ [][ MissingHandler => MissingHandler' ]_vars

\* run() threw at PB, for which the provider has no handler, after it had
\* published PA: both are still pending and the rebase is still flagged.
C39_Witness ==
    /\ outcome = "aborted"
    /\ log = << << "publish", "PA" >> >>
    /\ Names(pendingPayloads) = << "PA", "PB" >>
    /\ pendingBackupRebase
    /\ store.source["4"].name = "Official"
    /\ MissingHandler

\* The last call was a run() that threw in an updater of _applyUpdates.
AbortedInApply ==
    /\ outcome = "aborted"
    /\ log # << >>
    /\ log[Len(log)][1] \in {"replay", "apply"}

\* C40: when a pending updater throws in a run(), the updaters invoked as
\* new are the pending ones up to it; the sink is not published and notify()
\* not called, so the store's source is the one the backup restore and the
\* payloads of this run() gave, with no write of the pass; pendingUpdaters is
\* as it was; the updaters before the one that threw are in appliedUpdaters
\* too, the one that threw and the later ones are not.
C40_ThrowingUpdaterAbortsApply ==
    [][ (RunStep /\ AbortedInApply') =>
            LET k        == Len(Invoked("apply")')
                restored == IF pendingBackupRebase /\ Size(backup) > 0
                            THEN MergeSource(store.source, backup)
                            ELSE store.source
            IN /\ k >= 1
               /\ Invoked("apply")' = SubSeq(pendingUpdaters, 1, k)
               /\ UpdaterThrows(pendingUpdaters[k])
               /\ ~Did("publish", "sink")' /\ ~Called(log', "notify")
               /\ store'.source = ReferenceCommitAll(restored, pendingPayloads, 1)
               /\ store'.data = store.data
               /\ pendingUpdaters' = pendingUpdaters
               /\ Range(appliedUpdaters') =
                      Range(appliedUpdaters) \cup {pendingUpdaters[i] : i \in 1..(k - 1)}
               /\ \A i \in k..Len(pendingUpdaters) :
                      pendingUpdaters[i] \notin Range(appliedUpdaters')
               /\ pendingBackupRebase' = pendingBackupRebase
      ]_vars

\* U1 and UT were pending in this order; run() invoked both and threw in UT:
\* U1 is applied and pending, UT is pending only, and "4" has neither name.
C40_Witness ==
    /\ AbortedInApply
    /\ Invoked("apply") = << "U1", "UT" >>
    /\ pendingUpdaters = << "U1", "UT" >>
    /\ appliedUpdaters = << "U1" >>
    /\ store.source["4"].name = "Zuck"
    /\ Has(backup, "4")

====
